---- MODULE Spec2Model ----
(***************************************************************************)
(* Model of testrail_analyzer.py: the paginated TestRail client, the      *)
(* milestone/build resolution, the per-build aggregation of the           *)
(* "Fetch Data" handler and the CSV cache store.                          *)
(*                                                                         *)
(* Python strings are sequences of one-character strings, so that the     *)
(* conversions of the program (str/int, the cache file name, the csv      *)
(* reader's newline handling, the date patterns) are computed and not     *)
(* assumed.                                                                *)
(***************************************************************************)
EXTENDS Integers, Sequences, FiniteSets, TLC

VARIABLES
    csvPc,        \* cache round trip: "idle", "start", "saved", "loaded"
    csvRecord,    \* the BuildRecord handed to save_build_data_to_csv
    csvFile,      \* the rows of the written file
    csvLoaded     \* what load_build_data_from_csv returned

csvVars == <<csvPc, csvRecord, csvFile, csvLoaded>>

VARIABLES
    pgPc,         \* a paginated fetch: "idle", "loop", "done"
    pgKind,       \* "milestones", "plans" or "results"
    pgServer,     \* the server's item count and page size
    pgLoop,       \* the locals of the loop: the list so far and the offset
    pgRequests,   \* the offsets requested so far, in order
    pgPages,      \* the list pages received so far, in order
    pgFault,      \* a request failed or was answered by a non-list
    pgReturn      \* the value returned

pgVars == <<pgPc, pgKind, pgServer, pgLoop, pgRequests, pgPages, pgFault, pgReturn>>

VARIABLES
    pc,               \* where the "Fetch Data" handler stands ("idle": not running)
    budget,           \* what the user and the server may still do (see Budget)
    inputs,           \* the sidebar values of the running request
    session,          \* st.session_state: all_plans_cache and testrail_data
    disk,             \* the cache files: path -> rows
    atClick,          \* the session and the cache files when the request started
    outcome,          \* how the last request ended
    log,              \* the requests and the cache file accesses of the running
                      \* request, in order: of the resolution until the builds
                      \* are resolved, of the cache check and the loops after
    milestones,       \* locals of the handler, named as in the source
    release_ms,
    build_milestones,
    cached_builds,
    uncached_builds,
    all_data,
    load_idx,
    build_idx,
    build_data,
    milestone_plans,
    plan_idx,
    runs,
    run_idx,
    run               \* the locals of the run being processed

envVars == <<budget, inputs, atClick, outcome, log>>

storeVars == <<session, disk>>

resolveVars == <<milestones, release_ms, build_milestones, cached_builds, uncached_builds>>

loopVars == <<load_idx, build_idx, milestone_plans, plan_idx, runs, run_idx, run>>

hVars == <<pc, envVars, storeVars, resolveVars, all_data, build_data, loopVars>>

VARIABLES
    rbPc,         \* build selection alone: "idle", "children", "selected"
    rbChildren,   \* the child milestones of a release
    rbSelected    \* build_milestones after the sort and the [:5]

rbVars == <<rbPc, rbChildren, rbSelected>>

VARIABLES
    fnPc,         \* a call of a pure function: "idle", "call", "returned"
    fnName,       \* the function called
    fnArgs,       \* its arguments
    fnResult      \* what it returned

fnVars == <<fnPc, fnName, fnArgs, fnResult>>

vars == <<csvVars, pgVars, hVars, rbVars, fnVars>>

(***************************************************************************)
(* Strings                                                                 *)
(***************************************************************************)
CR == "\r"
LF == "\n"

DigitChars == <<"0", "1", "2", "3", "4", "5", "6", "7", "8", "9">>

IsDigit(c) == \E i \in 1..10 : DigitChars[i] = c

DigitVal(c) == (CHOOSE i \in 1..10 : DigitChars[i] = c) - 1

\* str(n) of a non-negative integer: its decimal digits.
RECURSIVE StrOfInt(_)
StrOfInt(n) ==
    IF n < 10 THEN <<DigitChars[n + 1]>>
    ELSE Append(StrOfInt(n \div 10), DigitChars[(n % 10) + 1])

\* The value of a non-empty digit string.
RECURSIVE DigitsValue(_)
DigitsValue(s) ==
    IF Len(s) = 0 THEN 0
    ELSE 10 * DigitsValue(SubSeq(s, 1, Len(s) - 1)) + DigitVal(s[Len(s)])

\* int(value) accepts a non-empty digit string (the only numbers the
\* cache writer produces are str() of non-negative integers); anything
\* else raises ValueError.
IntParses(s) == Len(s) > 0 /\ \A i \in 1..Len(s) : IsDigit(s[i])

IntOfStr(s) == DigitsValue(s)

\* A set as a sequence, in some fixed order (the iteration order of a dict
\* whose keys are the set).
RECURSIVE SetToSeq(_)
SetToSeq(S) ==
    IF S = {} THEN <<>>
    ELSE LET x == CHOOSE y \in S : TRUE IN <<x>> \o SetToSeq(S \ {x})

RECURSIVE FlattenSeq(_)
FlattenSeq(ss) ==
    IF Len(ss) = 0 THEN <<>> ELSE Head(ss) \o FlattenSeq(Tail(ss))

Min(a, b) == IF a < b THEN a ELSE b

\* s[i-1:j], clamped to the string as a Python slice is.
Slice(s, i, j) == IF i > Min(j, Len(s)) THEN <<>> ELSE SubSeq(s, i, Min(j, Len(s)))

AllDigits(s, i, n) == i >= 1 /\ i + n - 1 <= Len(s) /\ \A k \in i..(i + n - 1) : IsDigit(s[k])

LowerChars ==
    <<"a", "b", "c", "d", "e", "f", "g", "h", "i", "j", "k", "l", "m",
      "n", "o", "p", "q", "r", "s", "t", "u", "v", "w", "x", "y", "z">>

UpperChars ==
    <<"A", "B", "C", "D", "E", "F", "G", "H", "I", "J", "K", "L", "M",
      "N", "O", "P", "Q", "R", "S", "T", "U", "V", "W", "X", "Y", "Z">>

IsLower(c) == \E i \in 1..26 : LowerChars[i] = c

IsUpper(c) == \E i \in 1..26 : UpperChars[i] = c

UpperChar(c) == IF IsLower(c) THEN UpperChars[CHOOSE i \in 1..26 : LowerChars[i] = c] ELSE c

LowerChar(c) == IF IsUpper(c) THEN LowerChars[CHOOSE i \in 1..26 : UpperChars[i] = c] ELSE c

\* str.upper() / str.lower()
Upper(s) == [i \in 1..Len(s) |-> UpperChar(s[i])]

Lower(s) == [i \in 1..Len(s) |-> LowerChar(s[i])]

\* needle occurs in hay at position i
OccursAt(needle, hay, i) ==
    /\ i >= 1
    /\ i + Len(needle) - 1 <= Len(hay)
    /\ \A k \in 1..Len(needle) : hay[i + k - 1] = needle[k]

\* needle in hay
Contains(hay, needle) == \E i \in 1..(Len(hay) + 1) : OccursAt(needle, hay, i)

\* hay.startswith(needle)
StartsWith(hay, needle) == OccursAt(needle, hay, 1)

(***************************************************************************)
(* parse_build_date                                                        *)
(***************************************************************************)
\* None
NoDate == [year |-> 0, month |-> 0, day |-> 0]

IsLeap(y) == (y % 4 = 0 /\ y % 100 # 0) \/ y % 400 = 0

DaysInMonth(y, m) ==
    IF m = 2 THEN (IF IsLeap(y) THEN 29 ELSE 28)
    ELSE IF m \in {4, 6, 9, 11} THEN 30 ELSE 31

\* datetime(year, month, day) does not raise ValueError.
ValidDate(y, m, d) ==
    /\ y >= 1 /\ y <= 9999
    /\ m >= 1 /\ m <= 12
    /\ d >= 1 /\ d <= DaysInMonth(y, m)

\* The groups of a match taken as a date without constructing it.
DateUnchecked(ys, ms, ds) ==
    [year |-> DigitsValue(ys), month |-> DigitsValue(ms), day |-> DigitsValue(ds)]

\* The groups of a match as a date, or None when datetime() raises.
DateOrNone(ys, ms, ds) ==
    LET y == DigitsValue(ys)
        m == DigitsValue(ms)
        d == DigitsValue(ds)
    IN  IF ValidDate(y, m, d) THEN [year |-> y, month |-> m, day |-> d] ELSE NoDate

\* (\d{4})(\d{2})(\d{2})(\d{4}) matches at i
Pattern1At(s, i) == AllDigits(s, i, 12)

\* (\d{4})(\d{2})(\d{2})_(\d{6}) matches at i
Pattern2At(s, i) ==
    /\ AllDigits(s, i, 8)
    /\ i + 8 <= Len(s) /\ s[i + 8] = "_"
    /\ AllDigits(s, i + 9, 6)

\* Where the month starts when (\d{4})[-]?(\d{2})[-]?(\d{2}) is tried at i:
\* an optional hyphen is taken when it is there.
AfterHyphen(s, j) == IF j <= Len(s) /\ s[j] = "-" THEN j + 1 ELSE j

Pattern3Month(s, i) == AfterHyphen(s, i + 4)

Pattern3Day(s, i) == AfterHyphen(s, Pattern3Month(s, i) + 2)

Pattern3At(s, i) ==
    /\ AllDigits(s, i, 4)
    /\ AllDigits(s, Pattern3Month(s, i), 2)
    /\ AllDigits(s, Pattern3Day(s, i), 2)

\* re.search: the leftmost position where the pattern matches, 0 if none.
FirstMatch(s, At(_, _)) ==
    IF \E i \in 1..Len(s) : At(s, i)
    THEN CHOOSE i \in 1..Len(s) : At(s, i) /\ \A k \in 1..(i - 1) : ~At(s, k)
    ELSE 0

Candidate1(s) ==
    LET i == FirstMatch(s, Pattern1At) IN
    IF i = 0 THEN NoDate
    ELSE DateOrNone(SubSeq(s, i, i + 3), SubSeq(s, i + 4, i + 5), SubSeq(s, i + 6, i + 7))

Candidate2(s) ==
    LET i == FirstMatch(s, Pattern2At) IN
    IF i = 0 THEN NoDate
    ELSE DateOrNone(SubSeq(s, i, i + 3), SubSeq(s, i + 4, i + 5), SubSeq(s, i + 6, i + 7))

Candidate3(s) ==
    LET i == FirstMatch(s, Pattern3At) IN
    IF i = 0 THEN NoDate
    ELSE LET m == Pattern3Month(s, i)
             d == Pattern3Day(s, i)
         IN  DateOrNone(SubSeq(s, i, i + 3), SubSeq(s, m, m + 1), SubSeq(s, d, d + 1))

\* The loose pattern tried before the two compact ones.
parse_loose_first(milestone_name) ==
    IF Candidate3(milestone_name) # NoDate THEN Candidate3(milestone_name)
    ELSE IF Candidate1(milestone_name) # NoDate THEN Candidate1(milestone_name)
    ELSE Candidate2(milestone_name)

parse_build_date(milestone_name) ==
    IF Candidate1(milestone_name) # NoDate THEN Candidate1(milestone_name)
    ELSE IF Candidate2(milestone_name) # NoDate THEN Candidate2(milestone_name)
    ELSE Candidate3(milestone_name)

\* The order of datetime values.
DateKey(date) == date.year * 10000 + date.month * 100 + date.day

Pad2(n) == IF n < 10 THEN <<"0">> \o StrOfInt(n) ELSE StrOfInt(n)

\* build_date.strftime('%Y-%m-%d'); glibc does not pad %Y.
DateString(date) == StrOfInt(date.year) \o <<"-">> \o Pad2(date.month) \o <<"-">> \o Pad2(date.day)

(***************************************************************************)
(* categorize_device / extract_platform                                    *)
(***************************************************************************)
StackIndicators ==
    << <<"S", "T", "A", "C", "K">>, <<"S", "T", "K">>, <<"S", "T", "A", "C", "K", "E", "D">> >>

SingleIndicators ==
    << <<"S", "I", "N", "G", "L", "E">>, <<"S", "N", "G", "L">>,
       <<"S", "T", "A", "N", "D", "A", "L", "O", "N", "E">>,
       <<"S", "W", "I", "T", "C", "H", "-">> >>

\* re.match(r'Switch-[A-Z]-', run_name, re.IGNORECASE)
SwitchLetterPrefix(run_name) ==
    /\ Len(run_name) >= 9
    /\ Upper(SubSeq(run_name, 1, 7)) = <<"S", "W", "I", "T", "C", "H", "-">>
    /\ IsUpper(UpperChar(run_name[8]))
    /\ run_name[9] = "-"

\* The single indicators looked for before the stack ones.
categorize_single_first(run_name) ==
    LET run_name_upper == Upper(run_name) IN
    IF \E i \in 1..Len(SingleIndicators) : Contains(run_name_upper, SingleIndicators[i])
    THEN "single"
    ELSE IF \E i \in 1..Len(StackIndicators) : Contains(run_name_upper, StackIndicators[i])
    THEN "stack"
    ELSE IF SwitchLetterPrefix(run_name) THEN "single"
    ELSE "unknown"

categorize_device(run_name) ==
    LET run_name_upper == Upper(run_name) IN
    IF \E i \in 1..Len(StackIndicators) : Contains(run_name_upper, StackIndicators[i])
    THEN "stack"
    ELSE IF \E i \in 1..Len(SingleIndicators) : Contains(run_name_upper, SingleIndicators[i])
    THEN "single"
    ELSE IF SwitchLetterPrefix(run_name) THEN "single"
    ELSE "unknown"

MSCode(a, b, c) == <<"M", "S", a, b, c>>

CCode(a, b, c, d) == <<"C", a, b, c, d>>

\* The list `platforms`, in its order.
KnownPlatforms ==
    << MSCode("1", "2", "0"), MSCode("1", "2", "5"), MSCode("1", "3", "0"), MSCode("1", "5", "0"),
       MSCode("2", "1", "0"), MSCode("2", "2", "0"), MSCode("2", "2", "5"), MSCode("2", "5", "0"),
       MSCode("3", "2", "0"), MSCode("3", "5", "0"), MSCode("3", "5", "5"), MSCode("3", "9", "0"),
       MSCode("4", "1", "0"), MSCode("4", "2", "0"), MSCode("4", "2", "5"), MSCode("4", "5", "0"),
       CCode("9", "3", "0", "0"), CCode("9", "3", "0", "0") \o <<"L">>,
       CCode("9", "3", "0", "0") \o <<"X">>, CCode("9", "2", "0", "0"),
       CCode("9", "2", "0", "0") \o <<"L">>, CCode("9", "2", "0", "0") \o <<"C", "X">>,
       CCode("9", "5", "0", "0"), CCode("9", "4", "0", "0"), CCode("9", "6", "0", "0"),
       CCode("9", "8", "0", "0"),
       CCode("3", "8", "5", "0"), CCode("3", "6", "5", "0"), CCode("2", "9", "6", "0") >>

UnknownPlatform == <<"U", "n", "k", "n", "o", "w", "n">>

IsLetter(c) == IsLower(c) \/ IsUpper(c)

\* The end of the longest run of digits (letters) from i on; i - 1 when
\* there is none.
RECURSIVE DigitRunEnd(_, _)
DigitRunEnd(s, i) == IF i <= Len(s) /\ IsDigit(s[i]) THEN DigitRunEnd(s, i + 1) ELSE i - 1

RECURSIVE LetterRunEnd(_, _)
LetterRunEnd(s, i) == IF i <= Len(s) /\ IsLetter(s[i]) THEN LetterRunEnd(s, i + 1) ELSE i - 1

IsSepChar(c) == c \in {"-", " ", "\t", LF, CR}

\* Where the digits of MS[-\s]?(\d+) start when it is tried at i.
MSDigits(s, i) == IF i + 2 <= Len(s) /\ IsSepChar(s[i + 2]) THEN i + 3 ELSE i + 2

MSPatternAt(s, i) ==
    /\ i + 1 <= Len(s)
    /\ UpperChar(s[i]) = "M" /\ UpperChar(s[i + 1]) = "S"
    /\ AllDigits(s, MSDigits(s, i), 1)

\* C(\d{4}[A-Z]*), ignoring case
CPatternAt(s, i) == i <= Len(s) /\ UpperChar(s[i]) = "C" /\ AllDigits(s, i + 1, 4)

\* The listed codes that occur in the upper-cased name, by their place.
ListedIn(up) == {i \in 1..Len(KnownPlatforms) : Contains(up, KnownPlatforms[i])}

\* The longest listed code that occurs takes the name.
LongestListed(up) ==
    KnownPlatforms[CHOOSE i \in ListedIn(up) :
                      \A k \in ListedIn(up) : Len(KnownPlatforms[k]) <= Len(KnownPlatforms[i])]

\* for platform in platforms: if platform in run_name.upper(): return platform
FirstListed(up) ==
    KnownPlatforms[CHOOSE i \in ListedIn(up) : \A k \in ListedIn(up) : i <= k]

\* f'MS{match.group(1)}' of the leftmost match of MS[-\s]?(\d+)
MSCaptured(run_name) ==
    LET i == FirstMatch(run_name, MSPatternAt)
        d == MSDigits(run_name, i)
    IN  <<"M", "S">> \o SubSeq(run_name, d, DigitRunEnd(run_name, d))

\* f'C{match.group(1)}' of the leftmost match of C(\d{4}[A-Z]*)
CCaptured(run_name) ==
    LET i == FirstMatch(run_name, CPatternAt)
    IN  <<"C">> \o SubSeq(run_name, i + 1, LetterRunEnd(run_name, i + 5))

\* The C pattern tried before the MS pattern.
extract_c_pattern_first(run_name) ==
    LET up == Upper(run_name) IN
    IF ListedIn(up) # {} THEN FirstListed(up)
    ELSE IF FirstMatch(run_name, CPatternAt) # 0 THEN CCaptured(run_name)
    ELSE IF FirstMatch(run_name, MSPatternAt) # 0 THEN MSCaptured(run_name)
    ELSE UnknownPlatform

extract_platform(run_name) ==
    LET up == Upper(run_name) IN
    IF ListedIn(up) # {} THEN FirstListed(up)
    ELSE IF FirstMatch(run_name, MSPatternAt) # 0 THEN MSCaptured(run_name)
    ELSE IF FirstMatch(run_name, CPatternAt) # 0 THEN CCaptured(run_name)
    ELSE UnknownPlatform

(***************************************************************************)
(* Cache paths: check_cached_builds and the path computations of           *)
(* save_build_data_to_csv and of the cached load                           *)
(***************************************************************************)
\* Letters beyond ASCII that a name of the model may hold.
OtherLetters == {"é"}

\* \w of the pattern [^\w\-_]: the pattern is a str pattern, so \w is the
\* Unicode class: letters and digits of any script and the underscore.
IsWordChar(c) == IsLetter(c) \/ IsDigit(c) \/ c = "_" \/ c \in OtherLetters

\* The name taken as it is.
RawName(nm) == nm

\* re.sub(r'[^\w\-_]', '_', name)
SafeName(nm) == [i \in 1..Len(nm) |-> IF IsWordChar(nm[i]) \/ nm[i] = "-" THEN nm[i] ELSE "_"]

DotCsv == <<".", "c", "s", "v">>

\* os.path.join(a, b) of posixpath
os_path_join(a, b) ==
    IF Len(b) > 0 /\ b[1] = "/" THEN b
    ELSE IF Len(a) = 0 \/ a[Len(a)] = "/" THEN a \o b
    ELSE a \o <<"/">> \o b

\* csv_file of save_build_data_to_csv
SavePath(cache_dir, release_milestone, build_name) ==
    LET safe_build_name == SafeName(build_name)
        release_dir == os_path_join(cache_dir, release_milestone)
    IN  os_path_join(release_dir, safe_build_name \o DotCsv)

\* csv_file of check_cached_builds
CheckPath(cache_dir, release_milestone, build_name) ==
    LET release_dir == os_path_join(cache_dir, release_milestone)
        safe_build_name == SafeName(build_name)
    IN  os_path_join(release_dir, safe_build_name \o DotCsv)

\* csv_file of the cached load:
\* os.path.join(cache_dir, release_milestone, f"{safe_build_name}.csv")
CachePath(cache_dir, release_milestone, build_name) ==
    os_path_join(os_path_join(cache_dir, release_milestone), SafeName(build_name) \o DotCsv)

\* os.path.exists(csv_file)
FileExists(files, path) == path \in DOMAIN files

\* A check that finds no file.
check_no_file(files, cache_dir, release_milestone, builds) ==
    [cached_builds |-> <<>>, uncached_builds |-> builds]

\* A check that leaves the builds it finds cached among the uncached.
check_without_split(files, cache_dir, release_milestone, builds) ==
    [cached_builds |-> SelectSeq(builds,
         LAMBDA b : FileExists(files, CheckPath(cache_dir, release_milestone, b.name))),
     uncached_builds |-> builds]

\* check_cached_builds: the builds whose file exists, and the others, each
\* in the order of the builds given.
check_cached_builds(files, cache_dir, release_milestone, builds) ==
        [cached_builds |-> SelectSeq(builds,
             LAMBDA b : FileExists(files, CheckPath(cache_dir, release_milestone, b.name))),
         uncached_builds |-> SelectSeq(builds,
             LAMBDA b : ~FileExists(files, CheckPath(cache_dir, release_milestone, b.name)))]

(***************************************************************************)
(* ResolveRelease / ResolveBuilds                                          *)
(***************************************************************************)
\* list.sort(key=..., reverse=True) on <<key, item>> pairs: descending and
\* stable, equal keys keep their order.
InsertDesc(sorted, x) ==
    LET n == Cardinality({i \in 1..Len(sorted) : sorted[i][1] >= x[1]}) IN
    SubSeq(sorted, 1, n) \o <<x>> \o SubSeq(sorted, n + 1, Len(sorted))

RECURSIVE SortDesc(_)
SortDesc(pairs) ==
    IF Len(pairs) = 0 THEN <<>>
    ELSE InsertDesc(SortDesc(SubSeq(pairs, 1, Len(pairs) - 1)), pairs[Len(pairs)])

Items(pairs) == [i \in 1..Len(pairs) |-> pairs[i][2]]

\* Every listed milestone, whatever its name.
MatchingAnyName(listing, release_milestone) == listing

\* The milestones whose name is the selected release, in listing order.
MatchingMilestones(listing, release_milestone) ==
    SelectSeq(listing, LAMBDA m : m.name = release_milestone)

\* The first matching milestone, however many children it embeds.
PickFirstMatch(matching_milestones) == matching_milestones[1]

\* The matching milestone with the most embedded children (the sort is
\* skipped for a single match).
PickRelease(matching_milestones) ==
    IF Len(matching_milestones) > 1
    THEN Items(SortDesc([i \in 1..Len(matching_milestones) |->
                 <<Len(matching_milestones[i].milestones), matching_milestones[i]>>]))[1]
    ELSE matching_milestones[1]

\* The children of a list that carry a parsable date, each with its
\* build_date, in list order.
EligibleBuilds(child_milestones) ==
    LET dated == SelectSeq(child_milestones, LAMBDA c : parse_build_date(c.name) # NoDate) IN
    [i \in 1..Len(dated) |->
        [id |-> dated[i].id, name |-> dated[i].name, parent_id |-> dated[i].parent_id,
         build_date |-> parse_build_date(dated[i].name)]]

\* The fallback: the listed milestones whose parent_id is the release's id.
ChildrenByParent(listing, release) ==
    SelectSeq(listing, LAMBDA m : m.parent_id = release.id)

\* build_milestones[:5]
RetainedBuilds == 5

\* The [:5] taken before the sort.
RetainThenSort(builds) ==
    Items(SortDesc([i \in 1..Min(RetainedBuilds, Len(builds)) |->
                       <<DateKey(builds[i].build_date), builds[i]>>]))

\* build_milestones.sort(key=build_date, reverse=True); build_milestones[:5]
SortAndRetain(builds) ==
    LET sorted == Items(SortDesc([i \in 1..Len(builds) |->
                        <<DateKey(builds[i].build_date), builds[i]>>]))
    IN  SubSeq(sorted, 1, Min(RetainedBuilds, Len(sorted)))

(***************************************************************************)
(* TestRailAPI: the paginated listings                                     *)
(*                                                                         *)
(* A response of send_get is a list page, a non-list JSON value, or an    *)
(* exception.  Items are numbered by their place in the server's listing. *)
(***************************************************************************)
\* len(response) < 250 in get_milestones / get_plans
ListPageSize == 250

\* batch_size of get_results_for_run
batch_size == 250

\* the "safety check" of get_results_for_run
ResultsCeiling == 10000

ListResponse(items) == [type |-> "list", items |-> items]

NonListResponses == { [type |-> "dict", items |-> <<>>], [type |-> "null", items |-> <<>>] }

\* `not batch`: an empty list, None, an empty dict.
Falsy(response) ==
    \/ response.type = "null"
    \/ response.type = "list" /\ Len(response.items) = 0

LoopStart == [items |-> <<>>, offset |-> 0, done |-> FALSE, ret |-> <<>>]

\* return <the list so far>
ReturnList(loop) == [loop EXCEPT !.done = TRUE, !.ret = ListResponse(loop.items)]

\* A pass that breaks on a short page before extending the list.
ListingPassDropsShort(loop, response) ==
    IF response.type = "list"
    THEN IF Len(response.items) < ListPageSize
         THEN ReturnList(loop)
         ELSE [loop EXCEPT !.items = @ \o response.items,
                           !.offset = @ + Len(response.items)]
    ELSE [loop EXCEPT !.done = TRUE, !.ret = response]

\* One pass of the while loop of get_milestones / get_plans given the
\* response of send_get.
ListingPass(loop, response) ==
    IF response.type = "list"
    THEN IF Len(response.items) = 0
         THEN ReturnList(loop)
         ELSE LET more == [loop EXCEPT !.items = @ \o response.items,
                                       !.offset = @ + Len(response.items)]
              IN  IF Len(response.items) < ListPageSize THEN ReturnList(more) ELSE more
    ELSE [loop EXCEPT !.done = TRUE, !.ret = response]

\* A bare except that lets the handler see nothing of the pages so far.
ListingRaiseDropsAll(loop) == [loop EXCEPT !.done = TRUE, !.ret = ListResponse(<<>>)]

\* send_get raised inside the loop: the bare except breaks out.
ListingRaise(loop) == ReturnList(loop)

\* One pass of the while loop of get_results_for_run (limit is None, so
\* current_limit = batch_size).
ResultsPass(loop, batch) ==
    IF Falsy(batch) \/ batch.type # "list"
    THEN ReturnList(loop)
    ELSE LET got == [loop EXCEPT !.items = @ \o batch.items] IN
         IF Len(batch.items) < batch_size
         THEN ReturnList(got)
         ELSE LET more == [got EXCEPT !.offset = @ + Len(batch.items)] IN
              IF Len(more.items) > ResultsCeiling THEN ReturnList(more) ELSE more

\* An except that drops what was fetched.
ResultsRaiseDropsAll(loop) == [loop EXCEPT !.done = TRUE, !.ret = ListResponse(<<>>)]

\* send_get raised: the except around the loop reports and falls through
\* to `return results`.
ResultsRaise(loop) == ReturnList(loop)

(***************************************************************************)
(* Cache store: save_build_data_to_csv / load_build_data_from_csv          *)
(*                                                                         *)
(* A cache file is the sequence of rows the csv writer was given; a row   *)
(* is a sequence of fields, a field a string.  The csv module quotes and  *)
(* unquotes fields, so delimiters and quotes inside a field survive; what *)
(* the model keeps of the file layer is the text mode of the two open()   *)
(* calls, which differ.                                                   *)
(***************************************************************************)
\* The literal field values of the file format.
K_SUMMARY == <<"S", "U", "M", "M", "A", "R", "Y">>
K_PLATFORMS == <<"P", "L", "A", "T", "F", "O", "R", "M", "S">>
K_SECTIONS == <<"S", "E", "C", "T", "I", "O", "N", "S">>
K_metric == <<"m", "e", "t", "r", "i", "c">>
K_value == <<"v", "a", "l", "u", "e">>
K_name == <<"n", "a", "m", "e">>
K_date == <<"d", "a", "t", "e">>
K_passed == <<"p", "a", "s", "s", "e", "d">>
K_failed == <<"f", "a", "i", "l", "e", "d">>
K_error == <<"e", "r", "r", "o", "r">>
K_blocked == <<"b", "l", "o", "c", "k", "e", "d">>
K_retest == <<"r", "e", "t", "e", "s", "t">>
K_skipped == <<"s", "k", "i", "p", "p", "e", "d">>
K_platform == <<"p", "l", "a", "t", "f", "o", "r", "m">>
K_device_type == <<"d", "e", "v", "i", "c", "e", "_", "t", "y", "p", "e">>
K_section == <<"s", "e", "c", "t", "i", "o", "n">>
K_count == <<"c", "o", "u", "n", "t">>
K_single == <<"s", "i", "n", "g", "l", "e">>
K_stack == <<"s", "t", "a", "c", "k">>

StatusKeys == <<"passed", "failed", "error", "blocked", "retest", "skipped">>

StatusField ==
    [passed |-> K_passed, failed |-> K_failed, error |-> K_error,
     blocked |-> K_blocked, retest |-> K_retest, skipped |-> K_skipped]

DeviceTypes == <<"single", "stack">>

DeviceField == [single |-> K_single, stack |-> K_stack]

ZeroOverall ==
    [passed |-> 0, failed |-> 0, error |-> 0, blocked |-> 0, retest |-> 0, skipped |-> 0]

\* defaultdict(int): no key yet.
NoSections == [l \in {} |-> 0]

ZeroBucket == [passed |-> 0, failed |-> 0, error |-> 0, sections |-> NoSections]

\* The default_factory of build_data['platforms'].
ZeroPlatform == [single |-> ZeroBucket, stack |-> ZeroBucket]

NoPlatforms == [p \in {} |-> ZeroPlatform]

\* d[k] = v on a dict.
DictPut(d, k, v) == [x \in (DOMAIN d) \cup {k} |-> IF x = k THEN v ELSE d[x]]

\* d[k] on a defaultdict(int), without inserting.
SectionCount(sections, l) == IF l \in DOMAIN sections THEN sections[l] ELSE 0

\* d[k] on the platforms defaultdict.
PlatformOf(platforms, p) == IF p \in DOMAIN platforms THEN platforms[p] ELSE ZeroPlatform

SummaryRows(bd) ==
    << <<K_SUMMARY>>,
       <<K_metric, K_value>>,
       <<K_name, bd.name>>,
       <<K_date, bd.date>>,
       <<K_passed, StrOfInt(bd.overall.passed)>>,
       <<K_failed, StrOfInt(bd.overall.failed)>>,
       <<K_error, StrOfInt(bd.overall.error)>>,
       <<K_blocked, StrOfInt(bd.overall.blocked)>>,
       <<K_retest, StrOfInt(bd.overall.retest)>>,
       <<K_skipped, StrOfInt(bd.overall.skipped)>>,
       <<>> >>

PlatformRowsOf(platform, platform_data) ==
    [i \in 1..2 |->
        LET b == platform_data[DeviceTypes[i]] IN
        <<platform, DeviceField[DeviceTypes[i]],
          StrOfInt(b.passed), StrOfInt(b.failed), StrOfInt(b.error)>>]

PlatformRows(bd) ==
    LET ps == SetToSeq(DOMAIN bd.platforms) IN
    << <<K_PLATFORMS>>,
       <<K_platform, K_device_type, K_passed, K_failed, K_error>> >>
    \o FlattenSeq([i \in 1..Len(ps) |-> PlatformRowsOf(ps[i], bd.platforms[ps[i]])])
    \o << <<>> >>

\* Rows of one platform/device_type: zero counts are not written.
SectionRowsOf(platform, device_type, sections) ==
    LET ls == SetToSeq({l \in DOMAIN sections : sections[l] > 0}) IN
    [i \in 1..Len(ls) |->
        <<platform, DeviceField[device_type], ls[i], StrOfInt(sections[ls[i]])>>]

SectionRows(bd) ==
    LET ps == SetToSeq(DOMAIN bd.platforms) IN
    << <<K_SECTIONS>>,
       <<K_platform, K_device_type, K_section, K_count>> >>
    \o FlattenSeq([i \in 1..Len(ps) |->
          SectionRowsOf(ps[i], "single", bd.platforms[ps[i]].single.sections)
          \o SectionRowsOf(ps[i], "stack", bd.platforms[ps[i]].stack.sections)])

\* save_build_data_to_csv: the rows handed to the writer, in order.
save_build_data_to_csv(bd) ==
    SummaryRows(bd) \o PlatformRows(bd) \o SectionRows(bd)

\* open(csv_file, 'r') without newline='': the universal-newlines text
\* layer turns "\r\n" and a lone "\r" into "\n" before the csv reader sees
\* the text; the writer's file was opened with newline='' and keeps them.
RECURSIVE UniversalNewlines(_)
UniversalNewlines(s) ==
    IF Len(s) = 0 THEN <<>>
    ELSE IF s[1] = CR /\ Len(s) >= 2 /\ s[2] = LF
         THEN <<LF>> \o UniversalNewlines(SubSeq(s, 3, Len(s)))
    ELSE IF s[1] = CR THEN <<LF>> \o UniversalNewlines(Tail(s))
    ELSE <<s[1]>> \o UniversalNewlines(Tail(s))

\* The rows csv.reader yields for the file.
ReadRows(file) ==
    [i \in 1..Len(file) |-> [j \in 1..Len(file[i]) |-> UniversalNewlines(file[i][j])]]

\* The build_data dict load_build_data_from_csv starts from; `keys` are
\* the optional keys ('name', 'date') set so far, `raised` an exception.
EmptyLoaded ==
    [name |-> <<>>, date |-> <<>>, overall |-> ZeroOverall,
     platforms |-> NoPlatforms, keys |-> {}, raised |-> FALSE]

LoadRaise(d) == [d EXCEPT !.raised = TRUE]

IsDeviceField(f) == f = K_single \/ f = K_stack

DeviceOfField(f) == IF f = K_single THEN "single" ELSE "stack"

\* build_data['platforms'][platform][device_type] = bucket
SetBucket(platforms, platform, device_type, bucket) ==
    DictPut(platforms, platform,
            [PlatformOf(platforms, platform) EXCEPT ![device_type] = bucket])

BucketOf(platforms, platform, device_type) == PlatformOf(platforms, platform)[device_type]

LoadSummaryRow(d, row) ==
    IF Len(row) < 2 THEN LoadRaise(d)                      \* row[1]: IndexError
    ELSE LET metric == row[1]
             value == row[2]
         IN  IF metric = K_name
                 THEN [d EXCEPT !.name = value, !.keys = @ \cup {"name"}]
             ELSE IF metric = K_date
                 THEN [d EXCEPT !.date = value, !.keys = @ \cup {"date"}]
             ELSE IF \E k \in DOMAIN StatusField : StatusField[k] = metric
                 THEN IF IntParses(value)
                      THEN LET k == CHOOSE k \in DOMAIN StatusField : StatusField[k] = metric
                           IN  [d EXCEPT !.overall[k] = IntOfStr(value)]
                      ELSE LoadRaise(d)                    \* int(): ValueError
             ELSE d

\* Only rows of the current width are read.
LoadPlatformRowStrict(d, row) ==
    IF Len(row) # 5 THEN d
    ELSE IF ~IntParses(row[3]) \/ ~IsDeviceField(row[2]) \/ ~IntParses(row[4])
            \/ ~IntParses(row[5])
         THEN LoadRaise(d)
    ELSE LET dt == DeviceOfField(row[2])
             b == BucketOf(d.platforms, row[1], dt)
         IN  [d EXCEPT !.platforms =
                 SetBucket(@, row[1], dt,
                           [b EXCEPT !.passed = IntOfStr(row[3]),
                                     !.failed = IntOfStr(row[4]),
                                     !.error = IntOfStr(row[5])])]

\* A 5-column row, or a 4-column row of the old format (error = 0); rows
\* of any other width are passed over.  int() of a non-number raises
\* ValueError, a device_type other than single/stack KeyError.
LoadPlatformRow(d, row) ==
    IF Len(row) \notin {4, 5} THEN d
    ELSE IF ~IntParses(row[3]) \/ ~IsDeviceField(row[2]) \/ ~IntParses(row[4])
         THEN LoadRaise(d)
    ELSE IF Len(row) = 5 /\ ~IntParses(row[5]) THEN LoadRaise(d)
    ELSE LET dt == DeviceOfField(row[2])
             b == BucketOf(d.platforms, row[1], dt)
         IN  [d EXCEPT !.platforms =
                 SetBucket(@, row[1], dt,
                           [b EXCEPT !.passed = IntOfStr(row[3]),
                                     !.failed = IntOfStr(row[4]),
                                     !.error = IF Len(row) = 5 THEN IntOfStr(row[5]) ELSE 0])]

\* platform, device_type, section, count = row
LoadSectionRow(d, row) ==
    IF Len(row) # 4 THEN LoadRaise(d)                      \* unpacking: ValueError
    ELSE IF ~IntParses(row[4]) \/ ~IsDeviceField(row[2]) THEN LoadRaise(d)
    ELSE LET dt == DeviceOfField(row[2])
             b == BucketOf(d.platforms, row[1], dt)
         IN  [d EXCEPT !.platforms =
                 SetBucket(@, row[1], dt,
                           [b EXCEPT !.sections = DictPut(@, row[3], IntOfStr(row[4]))])]

\* The loop over the reader, from row i on, in section `cur`.
RECURSIVE LoadScan(_, _, _, _)
LoadScan(rows, i, cur, d) ==
    IF d.raised \/ i > Len(rows) THEN d
    ELSE LET row == rows[i] IN
         IF Len(row) = 0 THEN LoadScan(rows, i + 1, cur, d)
         ELSE IF row[1] \in {K_SUMMARY, K_PLATFORMS, K_SECTIONS}
              THEN IF i + 1 > Len(rows)
                   THEN LoadRaise(d)                       \* next(reader): StopIteration
                   ELSE LoadScan(rows, i + 2,
                                 IF row[1] = K_SUMMARY THEN "summary"
                                 ELSE IF row[1] = K_PLATFORMS THEN "platforms"
                                 ELSE "sections", d)
         ELSE IF cur = "summary" THEN LoadScan(rows, i + 1, cur, LoadSummaryRow(d, row))
         ELSE IF cur = "platforms" THEN LoadScan(rows, i + 1, cur, LoadPlatformRow(d, row))
         ELSE IF cur = "sections" THEN LoadScan(rows, i + 1, cur, LoadSectionRow(d, row))
         ELSE LoadScan(rows, i + 1, cur, d)

\* load_build_data_from_csv on the file's contents.
load_build_data_from_csv(file) == LoadScan(ReadRows(file), 1, "none", EmptyLoaded)

(***************************************************************************)
(* The per-run aggregation of the "Fetch Data" handler                     *)
(***************************************************************************)
\* The sentinel section labels.
L_FailedToMap == <<"F", "a", "i", "l", "e", "d", " ", "t", "o", " ", "m", "a", "p", " ", "s", "e", "c", "t", "i", "o", "n", "s">>

L_NoSuiteID == <<"N", "o", " ", "S", "u", "i", "t", "e", " ", "I", "D">>

L_MappingError == <<"M", "a", "p", "p", "i", "n", "g", " ", "E", "r", "r", "o", "r", ":", " ">>

L_NotFetched == <<"S", "e", "c", "t", "i", "o", "n", " ", "d", "e", "t", "a", "i", "l", "s", " ", "n", "o", "t", " ", "f", "e", "t", "c", "h", "e", "d">>

L_NoValidSections == <<"S", "u", "m", "m", "a", "r", "y", " ", "d", "a", "t", "a", " ", "-", " ", "n", "o", " ", "v", "a", "l", "i", "d", " ", "s", "e", "c", "t", "i", "o", "n", "s", " ", "f", "o", "u", "n", "d">>

L_NoSections == <<"S", "u", "m", "m", "a", "r", "y", " ", "d", "a", "t", "a", " ", "-", " ", "n", "o", " ", "s", "e", "c", "t", "i", "o", "n", "s", " ", "f", "o", "u", "n", "d">>

L_NoSuiteInfo == <<"S", "u", "m", "m", "a", "r", "y", " ", "d", "a", "t", "a", " ", "-", " ", "n", "o", " ", "s", "u", "i", "t", "e", " ", "i", "n", "f", "o", "r", "m", "a", "t", "i", "o", "n">>

L_NotAvailable == <<"S", "u", "m", "m", "a", "r", "y", " ", "d", "a", "t", "a", " ", "-", " ", "s", "e", "c", "t", "i", "o", "n", " ", "d", "e", "t", "a", "i", "l", "s", " ", "n", "o", "t", " ", "a", "v", "a", "i", "l", "a", "b", "l", "e">>

L_DetailsNotAvailable == <<"S", "u", "m", "m", "a", "r", "y", " ", "d", "a", "t", "a", " ", "-", " ", "d", "e", "t", "a", "i", "l", "s", " ", "n", "o", "t", " ", "a", "v", "a", "i", "l", "a", "b", "l", "e">>

L_Estimated == <<" ", "(", "e", "s", "t", "i", "m", "a", "t", "e", "d", ")">>

\* executed_count < 10000
DetailCeiling == 10000

\* section_names[:5]
EstimatedSections == 5

Classified(platform, device_type) ==
    platform # UnknownPlatform /\ device_type \in {"single", "stack"}

\* The counts of get_run's summary: passed, failed, blocked, retest,
\* untested, skip (custom_status1_count), error (custom_status2_count).
TestCount(r) == r.passed + r.failed + r.blocked + r.retest + r.untested + r.skip + r.error

ExecutedCount(r) == r.passed + r.failed + r.blocked + r.retest + r.skip + r.error

\* What the summary tier adds: skipped = untested + skip.
SummaryCounts(r) ==
    [passed |-> r.passed, failed |-> r.failed, error |-> r.error,
     blocked |-> r.blocked, retest |-> r.retest, skipped |-> r.untested + r.skip]

\* A classification that leaves the untested results (3) uncounted.
StatusBucketWithoutUntested(status_id) ==
    CASE status_id = 1 -> "passed"
      [] status_id = 5 -> "failed"
      [] status_id = 6 -> "error"
      [] status_id = 7 -> "skipped"
      [] status_id = 2 -> "blocked"
      [] status_id = 4 -> "retest"
      [] OTHER -> ""

\* The key of build_data_temp a status_id counts under ("" for none).
StatusBucket(status_id) ==
    CASE status_id = 1 -> "passed"
      [] status_id = 5 -> "failed"
      [] status_id = 6 -> "error"
      [] status_id = 7 -> "skipped"
      [] status_id = 2 -> "blocked"
      [] status_id = 4 -> "retest"
      [] status_id = 3 -> "skipped"
      [] OTHER -> ""

\* build_data_temp after the loop over the results.
TempCounts(results) ==
    [k \in {"passed", "failed", "error", "blocked", "retest", "skipped"} |->
        Cardinality({i \in 1..Len(results) : StatusBucket(results[i].status_id) = k})]

\* build_data['overall'][k] += c[k]
AddOverall(bd, c) ==
    [bd EXCEPT !.overall = [k \in DOMAIN @ |-> @[k] + c[k]]]

\* build_data['platforms'][platform][device_type][k] += c[k], k in
\* passed, failed, error
AddBucket(bd, platform, device_type, c) ==
    LET b == BucketOf(bd.platforms, platform, device_type) IN
    [bd EXCEPT !.platforms =
        SetBucket(@, platform, device_type,
                  [b EXCEPT !.passed = @ + c.passed,
                            !.failed = @ + c.failed,
                            !.error = @ + c.error])]

\* build_data['platforms'][platform][device_type]['sections'][label] += n
AddSection(bd, platform, device_type, label, n) ==
    LET b == BucketOf(bd.platforms, platform, device_type) IN
    [bd EXCEPT !.platforms =
        SetBucket(@, platform, device_type,
                  [b EXCEPT !.sections = DictPut(@, label, SectionCount(@, label) + n)])]

\* The counts of a classified run added to its bucket alone.
AccumulateBucketOnly(bd, platform, device_type, c) ==
    IF Classified(platform, device_type) THEN AddBucket(bd, platform, device_type, c)
    ELSE AddOverall(bd, c)

\* The counts of a run added to overall and, for a classified run, to its
\* bucket.
Accumulate(bd, platform, device_type, c) ==
    LET bd1 == AddOverall(bd, c) IN
    IF Classified(platform, device_type) THEN AddBucket(bd1, platform, device_type, c) ELSE bd1

\* {x[key]: x[val] for x in items if x[key] and x[val]} over ids; 0 (None)
\* is falsy.
RECURSIVE IdDict(_, _, _)
IdDict(items, key, val) ==
    IF Len(items) = 0 THEN <<>>
    ELSE LET x == items[Len(items)]
             rest == IdDict(SubSeq(items, 1, Len(items) - 1), key, val)
         IN  IF x[key] # 0 /\ x[val] # 0 THEN DictPut(rest, x[key], x[val]) ELSE rest

\* {section['id']: section['name'] ...}; an empty name is falsy.
RECURSIVE NameDict(_)
NameDict(items) ==
    IF Len(items) = 0 THEN <<>>
    ELSE LET x == items[Len(items)]
             rest == NameDict(SubSeq(items, 1, Len(items) - 1))
         IN  IF x.id # 0 /\ x.name # <<>> THEN DictPut(rest, x.id, x.name) ELSE rest

\* The section name of a failed/errored result, <<>> when the chain
\* test -> case -> section id -> name breaks.
SectionOfResult(result, test_to_case, case_to_section_id, section_id_to_name) ==
    IF result.test_id # 0 /\ result.test_id \in DOMAIN test_to_case
    THEN LET case_id == test_to_case[result.test_id] IN
         IF case_id \in DOMAIN case_to_section_id
         THEN LET section_id == case_to_section_id[case_id] IN
              IF section_id \in DOMAIN section_id_to_name
              THEN section_id_to_name[section_id] ELSE <<>>
         ELSE <<>>
    ELSE <<>>

\* section_counts after step 4 of the mapping.
SectionCounts(results, test_to_case, case_to_section_id, section_id_to_name) ==
    LET nameOf(i) == SectionOfResult(results[i], test_to_case, case_to_section_id,
                                     section_id_to_name)
        hits == {i \in 1..Len(results) : results[i].status_id \in {5, 6} /\ nameOf(i) # <<>>}
    IN  [l \in {nameOf(i) : i \in hits} |-> Cardinality({i \in hits : nameOf(i) = l})]

RECURSIVE AddSections(_, _, _, _, _)
AddSections(bd, platform, device_type, counts, labels) ==
    IF labels = {} THEN bd
    ELSE LET l == CHOOSE x \in labels : TRUE IN
         AddSections(AddSection(bd, platform, device_type, l, counts[l]),
                     platform, device_type, counts, labels \ {l})

\* An attribution that adds nothing when no chain resolves.
MapSectionsWithoutSentinel(bd, platform, device_type, results, temp, t2c, c2s, s2n) ==
    LET counts == SectionCounts(results, t2c, c2s, s2n) IN
    AddSections(bd, platform, device_type, counts, DOMAIN counts)

\* The detail tier's section attribution once tests, cases and sections
\* are fetched.
MapSections(bd, platform, device_type, results, temp, t2c, c2s, s2n) ==
    LET counts == SectionCounts(results, t2c, c2s, s2n) IN
    IF DOMAIN counts # {}
    THEN AddSections(bd, platform, device_type, counts, DOMAIN counts)
    ELSE AddSection(bd, platform, device_type, L_FailedToMap, temp.failed + temp.error)

\* An estimate that rounds every share up.
RECURSIVE EstimateFromRoundedUp(_, _, _, _, _, _, _)
EstimateFromRoundedUp(bd, platform, device_type, section_names, i, per, remainder) ==
    IF i > Min(EstimatedSections, Len(section_names)) THEN bd
    ELSE LET cnt == per + (IF remainder > 0 THEN 1 ELSE 0)
             bd1 == IF cnt > 0
                    THEN AddSection(bd, platform, device_type,
                                    section_names[i] \o L_Estimated, cnt)
                    ELSE bd
         IN  EstimateFromRoundedUp(bd1, platform, device_type, section_names, i + 1, per,
                                   remainder)

\* The summary tier's estimate over the first five named sections.
RECURSIVE EstimateFrom(_, _, _, _, _, _, _)
EstimateFrom(bd, platform, device_type, section_names, i, per, remainder) ==
    IF i > Min(EstimatedSections, Len(section_names)) THEN bd
    ELSE LET cnt == per + (IF i - 1 < remainder THEN 1 ELSE 0)
             bd1 == IF cnt > 0
                    THEN AddSection(bd, platform, device_type,
                                    section_names[i] \o L_Estimated, cnt)
                    ELSE bd
         IN  EstimateFrom(bd1, platform, device_type, section_names, i + 1, per, remainder)

EstimateSections(bd, platform, device_type, sections, total) ==
    IF Len(sections) = 0
    THEN AddSection(bd, platform, device_type, L_NoSections, total)
    ELSE LET named == SelectSeq(sections, LAMBDA x : x.name # <<>>)
             section_names == [i \in 1..Len(named) |-> named[i].name]
         IN  IF Len(section_names) = 0
             THEN AddSection(bd, platform, device_type, L_NoValidSections, total)
             ELSE EstimateFrom(bd, platform, device_type, section_names, 1,
                               total \div Len(section_names), total % Len(section_names))

(***************************************************************************)
(* The server and the user of the "Fetch Data" handler                     *)
(*                                                                         *)
(* Every request of the handler is answered by one of a few responses,     *)
(* chosen anew at each request, so the server may change between any two  *)
(* requests.                                                               *)
(***************************************************************************)
R_CS1 == <<"C", "S", "-", "1">>

R_Trunk == <<"T", "r", "u", "n", "k">>

R_Nightly == <<"N", "i", "g", "h", "t", "l", "y">>

N_A == <<"T", "-", "2", "0", "2", "5", "0", "6", "0", "2", "2", "3", "4", "9">>

N_B == <<"T", "-", "2", "0", "2", "5", "0", "6", "0", "1", " ", "b">>

N_C == <<"T", "-", "2", "0", "2", "5", "0", "6", "0", "1", ".", "b">>

N_X == <<"T", "-", "n", "e", "x", "t">>

RunSingle == <<"C", "9", "3", "0", "0", " ", "s", "n", "g", "l">>

RunStack == <<"m", "s", "1", "3", "0", "-", "S", "T", "K">>

RunMisc == <<"m", "i", "s", "c">>

RunNoDevice == <<"C", "9", "5", "0", "0">>

CacheDir == <<".", "/", "t", "e", "s", "t", "r", "a", "i", "l", "_", "c", "a", "c", "h", "e">>

ErrText == <<"T", "e", "s", "t", "R", "a", "i", "l", " ", "A", "P", "I", " ", "t", "i", "m", "e", "o", "u", "t">>

Releases == {R_CS1, R_Trunk}

\* A build milestone as the server lists it (parent_id 0: None).
Child(id, nm, parent_id) == [id |-> id, name |-> nm, parent_id |-> parent_id]

\* An entry of the milestone listing; `milestones` are its embedded
\* children (none when the key is absent).
Listed(id, nm, parent_id, children) ==
    [id |-> id, name |-> nm, parent_id |-> parent_id, milestones |-> children]

BA == Child(11, N_A, 1)
BB == Child(12, N_B, 1)
BC == Child(13, N_C, 1)
BX == Child(14, N_X, 1)

\* A JSON object with the given keys; `value` holds the values that are
\* lists, a key outside it is bound to a non-list.
DictResponse(keys, value) == [type |-> "dict", keys |-> keys, value |-> value]

\* What api.get_milestones may return: a list (empty also when a page
\* request failed), or the object of a non-list response.  The project
\* has no milestone named Trunk; in the fourth listing the release has
\* an undated child and nothing else.
MilestoneResponses ==
    { ListResponse(<< Listed(1, R_CS1, 0, <<BB, BX, BA>>),
                      Listed(3, R_Nightly, 0, <<BC>>),
                      Listed(13, N_C, 3, <<>>) >>),
      ListResponse(<< Listed(1, R_CS1, 0, <<>>),
                      Listed(2, R_CS1, 0, <<BC>>),
                      Listed(11, N_A, 1, <<>>) >>),
      ListResponse(<< Listed(1, R_CS1, 0, <<BX>>),
                      Listed(14, N_X, 1, <<>>),
                      Listed(11, N_A, 1, <<>>) >>),
      ListResponse(<< Listed(1, R_CS1, 0, <<BX>>) >>),
      ListResponse(<<>>),
      DictResponse({"error"}, <<>>),
      DictResponse({"milestones"}, [k \in {"milestones"} |->
                      << Listed(1, R_CS1, 0, <<BA>>) >>]) }

\* What api.get_milestone may return (an exception apart): the milestone
\* with or without its children.
MilestoneDetails ==
    { DictResponse({"id"}, <<>>),
      DictResponse({"id", "milestones"}, [k \in {"milestones"} |-> <<BB, BA>>]),
      DictResponse({"id", "milestones"}, [k \in {"milestones"} |-> <<BX>>]) }

Plan(id, milestone_id) == [id |-> id, milestone_id |-> milestone_id]

PlanResponses ==
    { ListResponse(<< Plan(21, 11), Plan(22, 12), Plan(23, 11), Plan(24, 13) >>),
      ListResponse(<<>>),
      DictResponse({"plans"}, [k \in {"plans"} |-> << Plan(21, 11), Plan(24, 13) >>]),
      DictResponse({"size"}, <<>>) }

\* A run of a plan entry (suite_id 0: None).
Run(id, nm, suite_id) == [id |-> id, name |-> nm, suite_id |-> suite_id]

\* The runs of the entries of get_plan's answer, entry after entry.
PlanDetails(plan_id) ==
    { <<>>,
      << Run(10 * plan_id + 1, RunStack, 5), Run(10 * plan_id + 2, RunMisc, 5) >>,
      << Run(10 * plan_id + 1, RunNoDevice, 5), Run(10 * plan_id + 2, RunSingle, 0) >> }

Summary(p, f, b, r, u, s, e) ==
    [passed |-> p, failed |-> f, blocked |-> b, retest |-> r, untested |-> u,
     skip |-> s, error |-> e]

\* Summaries that make the run be skipped.
SkippedSummaries == { Summary(0, 0, 0, 0, 0, 0, 0), Summary(0, 0, 0, 0, 2, 0, 0) }

CountedSummaries ==
    { Summary(0, 1, 1, 1, 1, 1, 2) }

\* Summaries around the ceiling of the detail tier: 9,999 and 10,000
\* executed tests.
LargeSummaries ==
    { Summary(DetailCeiling - 2, 1, 0, 0, 3, 0, 0),
      Summary(DetailCeiling - 1, 1, 0, 0, 3, 0, 0) }

Result(status_id, test_id) == [status_id |-> status_id, test_id |-> test_id]

\* What api.get_results_for_run may return: always a list.
ResultLists ==
    { <<>>,
      << Result(5, 1), Result(6, 2), Result(5, 3), Result(3, 4), Result(7, 5),
         Result(2, 6), Result(4, 7), Result(9, 8), Result(1, 0) >> }

TestLists == { << [id |-> 1, case_id |-> 1], [id |-> 2, case_id |-> 2], [id |-> 3, case_id |-> 0] >> }

CaseLists == { << [id |-> 1, section_id |-> 1], [id |-> 2, section_id |-> 2] >> }

SectionLists ==
    { <<>>,
      << [id |-> 1, name |-> <<"A">>], [id |-> 2, name |-> <<"B">>] >>,
      << [id |-> 1, name |-> <<>>] >> }

(***************************************************************************)
(* The "Fetch Data" handler                                                *)
(***************************************************************************)
NoRelease == [id |-> 0, name |-> <<>>, parent_id |-> 0, milestones |-> <<>>]

NoRun == [id |-> 0]

NoData == [release |-> <<>>, builds |-> <<>>, fetch_sections |-> FALSE]

NoInputs ==
    [release_milestone |-> <<>>, fetch_sections |-> FALSE, force_summary_only |-> FALSE,
     use_cache |-> FALSE, cache_dir |-> <<>>]

\* 'all_plans_cache' / 'testrail_data' not in st.session_state
NewSession ==
    [has_plans |-> FALSE, all_plans_cache |-> <<>>, has_data |-> FALSE, testrail_data |-> NoData]

\* The fresh build_data of an uncached build.
NewBuildData(build_ms) ==
    [name |-> build_ms.name, date |-> DateString(build_ms.build_date),
     overall |-> ZeroOverall, platforms |-> NoPlatforms]

NoBuildData == [name |-> <<>>, date |-> <<>>, overall |-> ZeroOverall, platforms |-> NoPlatforms]

\* The locals as they are when no request runs.
LocalsCleared ==
    /\ milestones' = <<>>
    /\ release_ms' = NoRelease
    /\ build_milestones' = <<>>
    /\ cached_builds' = <<>>
    /\ uncached_builds' = <<>>
    /\ all_data' = NoData
    /\ build_data' = NoBuildData
    /\ load_idx' = 0
    /\ build_idx' = 0
    /\ milestone_plans' = <<>>
    /\ plan_idx' = 0
    /\ runs' = <<>>
    /\ run_idx' = 0
    /\ run' = NoRun

PgIdle ==
    /\ pgPc = "idle"
    /\ pgKind = "none"
    /\ pgServer = <<>>
    /\ pgLoop = <<>>
    /\ pgRequests = <<>>
    /\ pgPages = <<>>
    /\ pgFault = FALSE
    /\ pgReturn = <<>>

RbIdle ==
    /\ rbPc = "idle"
    /\ rbChildren = <<>>
    /\ rbSelected = <<>>

FnIdle ==
    /\ fnPc = "idle"
    /\ fnName = ""
    /\ fnArgs = <<>>
    /\ fnResult = <<>>

CsvIdle ==
    /\ csvPc = "idle"
    /\ csvRecord = <<>>
    /\ csvFile = <<>>
    /\ csvLoaded = <<>>

HandlerStart(requests, counted, faults, large, files) ==
    /\ pc = "idle"
    /\ budget = [requests |-> requests, runs |-> counted, faults |-> faults, large |-> large]
    /\ inputs = NoInputs
    /\ session = NewSession
    /\ disk = files
    /\ atClick = [session |-> NewSession, disk |-> files]
    /\ outcome = "none"
    /\ log = <<>>
    /\ milestones = <<>>
    /\ release_ms = NoRelease
    /\ build_milestones = <<>>
    /\ cached_builds = <<>>
    /\ uncached_builds = <<>>
    /\ all_data = NoData
    /\ build_data = NoBuildData
    /\ load_idx = 0
    /\ build_idx = 0
    /\ milestone_plans = <<>>
    /\ plan_idx = 0
    /\ runs = <<>>
    /\ run_idx = 0
    /\ run = NoRun

HIdle == HandlerStart(0, 0, 0, 0, <<>>)

\* A request, a file access: what, for which build milestone, of what
\* (the plan of get_plan, the run of the run's requests).  `raised` marks
\* a request that raised; an answer of get_milestones carries the number
\* of `matching` names, an answer of get_run its executed count, an answer
\* of get_results_for_run the number of records `returned`.
Event(op, build_id, id) ==
    [op |-> op, build |-> build_id, id |-> id, raised |-> FALSE,
     matching |-> -1, executed |-> -1, returned |-> -1]

Raised(op, build_id, id) == [Event(op, build_id, id) EXCEPT !.raised = TRUE]

Logged(op, build_id, id) == log' = Append(log, Event(op, build_id, id))

\* The request ends: by st.stop(), by the outer except, by falling off the
\* not-found branch, or at its end.
EndRequest(how) ==
    /\ pc' = "idle"
    /\ outcome' = how
    /\ LocalsCleared

Fault == budget.faults > 0

FaultUsed == budget' = [budget EXCEPT !.faults = @ - 1]

\* A click that drops the memoized plans.
ClickForgetsPlans ==
    /\ pc = "idle"
    /\ budget.requests > 0
    /\ budget' = [budget EXCEPT !.requests = @ - 1]
    /\ \E rel \in Releases, fs \in BOOLEAN, so \in BOOLEAN, uc \in BOOLEAN :
          inputs' = [release_milestone |-> rel, fetch_sections |-> fs,
                     force_summary_only |-> so, use_cache |-> uc, cache_dir |-> CacheDir]
    /\ pc' = "get_milestones"
    /\ atClick' = [session |-> session, disk |-> disk]
    /\ outcome' = "running"
    /\ log' = <<>>
    /\ session' = [session EXCEPT !.has_plans = FALSE, !.all_plans_cache = <<>>]
    /\ UNCHANGED <<disk, resolveVars, all_data, build_data, loopVars>>
    /\ UNCHANGED <<csvVars, pgVars, rbVars, fnVars>>

\* The button is pressed with the sidebar as it stands.
Click ==
    /\ pc = "idle"
    /\ budget.requests > 0
    /\ budget' = [budget EXCEPT !.requests = @ - 1]
    /\ \E rel \in Releases, fs \in BOOLEAN, so \in BOOLEAN, uc \in BOOLEAN :
          inputs' = [release_milestone |-> rel, fetch_sections |-> fs,
                     force_summary_only |-> so, use_cache |-> uc, cache_dir |-> CacheDir]
    /\ pc' = "get_milestones"
    /\ atClick' = [session |-> session, disk |-> disk]
    /\ outcome' = "running"
    /\ log' = <<>>
    /\ UNCHANGED <<storeVars, resolveVars, all_data, build_data, loopVars>>
    /\ UNCHANGED <<csvVars, pgVars, rbVars, fnVars>>

\* A decoding that looks for data before result.
DecodeMilestonesDataFirst(response) ==
    IF response.type = "dict"
    THEN IF "error" \in response.keys THEN [raised |-> TRUE, list |-> <<>>]
         ELSE IF "milestones" \in response.keys
              THEN [raised |-> FALSE, list |-> response.value["milestones"]]
         ELSE IF "data" \in response.keys
              THEN IF "data" \in DOMAIN response.value
                   THEN [raised |-> FALSE, list |-> response.value["data"]]
                   ELSE [raised |-> TRUE, list |-> <<>>]
         ELSE IF "result" \in response.keys
              THEN IF "result" \in DOMAIN response.value
                   THEN [raised |-> FALSE, list |-> response.value["result"]]
                   ELSE [raised |-> TRUE, list |-> <<>>]
         ELSE [raised |-> FALSE, list |-> <<>>]
    ELSE IF response.type = "list" THEN [raised |-> FALSE, list |-> response.items]
    ELSE [raised |-> TRUE, list |-> <<>>]

\* The decoding of milestones_response: the list, or raised.
DecodeMilestones(response) ==
    IF response.type = "dict"
    THEN IF "error" \in response.keys THEN [raised |-> TRUE, list |-> <<>>]
         ELSE IF "milestones" \in response.keys
              THEN [raised |-> FALSE, list |-> response.value["milestones"]]
         ELSE IF "result" \in response.keys
              THEN IF "result" \in DOMAIN response.value
                   THEN [raised |-> FALSE, list |-> response.value["result"]]
                   ELSE [raised |-> TRUE, list |-> <<>>]
         ELSE IF "data" \in response.keys
              THEN IF "data" \in DOMAIN response.value
                   THEN [raised |-> FALSE, list |-> response.value["data"]]
                   ELSE [raised |-> TRUE, list |-> <<>>]
         ELSE [raised |-> FALSE, list |-> <<>>]
    ELSE IF response.type = "list" THEN [raised |-> FALSE, list |-> response.items]
    ELSE [raised |-> TRUE, list |-> <<>>]

\* From the sort on: sort, retain, st.stop() when nothing is left, else
\* the cache check and the start of the loops.  The listing and the
\* release are not read again once the builds are resolved.
AfterResolve(logged, candidates) ==
    LET selected == SortAndRetain(candidates)
        parts == IF inputs.use_cache
                 THEN check_cached_builds(disk, inputs.cache_dir, inputs.release_milestone,
                                          selected)
                 ELSE [cached_builds |-> <<>>, uncached_builds |-> selected]
    IN  IF Len(selected) = 0
        THEN /\ EndRequest("no_builds")
             /\ log' = logged
        ELSE /\ milestones' = <<>>
             /\ release_ms' = NoRelease
             /\ build_milestones' = selected
             /\ cached_builds' = parts.cached_builds
             /\ uncached_builds' = parts.uncached_builds
             /\ all_data' = [release |-> inputs.release_milestone, builds |-> <<>>,
                             fetch_sections |-> inputs.fetch_sections]
             /\ pc' = IF Len(parts.cached_builds) > 0 THEN "load_cached" ELSE "next_build"
             /\ load_idx' = IF Len(parts.cached_builds) > 0 THEN 1 ELSE 0
             /\ build_idx' = 1
             /\ outcome' = outcome
             /\ log' = IF inputs.use_cache
                       THEN [i \in 1..Len(selected) |-> Event("exists", selected[i].id, 0)]
                       ELSE <<>>
             /\ UNCHANGED <<build_data, milestone_plans, plan_idx, runs, run_idx, run>>

\* The answer of api.get_milestones as the log keeps it.
MilestonesAnswered(listing) ==
    [Event("get_milestones", 0, 0) EXCEPT
        !.matching = Cardinality({i \in 1..Len(listing) :
                                     listing[i].name = inputs.release_milestone})]

\* api.get_milestones, the decoding, ResolveRelease and the embedded
\* children.
GetMilestones ==
    /\ pc = "get_milestones"
    /\ \E response \in MilestoneResponses :
          LET decoded == DecodeMilestones(response)
              matching == MatchingMilestones(decoded.list, inputs.release_milestone)
              logged == Append(log, MilestonesAnswered(decoded.list))
          IN  IF decoded.raised
              THEN EndRequest("error") /\ log' = Append(log, Raised("get_milestones", 0, 0))
              ELSE IF Len(matching) = 0
              THEN EndRequest("not_found") /\ log' = logged
              ELSE LET rel == PickRelease(matching)
                       embedded == EligibleBuilds(rel.milestones)
                   IN  IF Len(embedded) > 0
                       THEN AfterResolve(logged, embedded)
                       ELSE /\ milestones' = decoded.list
                            /\ release_ms' = rel
                            /\ pc' = "get_milestone"
                            /\ log' = logged
                            /\ UNCHANGED <<outcome, build_milestones, cached_builds,
                                           uncached_builds, all_data, build_data, loopVars>>
    /\ UNCHANGED <<budget, inputs, atClick, storeVars>>
    /\ UNCHANGED <<csvVars, pgVars, rbVars, fnVars>>

\* milestone_details['milestones'] when the key is there.
DetailChildren(details) ==
    IF "milestones" \in details.keys THEN details.value["milestones"] ELSE <<>>

\* api.get_milestone answers: its children if any is eligible, else the
\* scan of the listing by parent_id.
DetailAnswers(details) ==
    /\ pc = "get_milestone"
    /\ LET children == EligibleBuilds(DetailChildren(details))
       IN  AfterResolve(Append(log, Event("get_milestone", 0, release_ms.id)),
                        IF Len(children) > 0 THEN children
                        ELSE EligibleBuilds(ChildrenByParent(milestones, release_ms)))
    /\ UNCHANGED <<budget, inputs, atClick, storeVars>>
    /\ UNCHANGED <<csvVars, pgVars, rbVars, fnVars>>

GetMilestoneDetail == \E details \in MilestoneDetails : DetailAnswers(details)

\* api.get_milestone raises: reported, then the scan by parent_id.
GetMilestoneDetailFails ==
    /\ pc = "get_milestone"
    /\ Fault
    /\ FaultUsed
    /\ AfterResolve(Append(log, Raised("get_milestone", 0, release_ms.id)),
                    EligibleBuilds(ChildrenByParent(milestones, release_ms)))
    /\ UNCHANGED <<inputs, atClick, storeVars>>
    /\ UNCHANGED <<csvVars, pgVars, rbVars, fnVars>>

\* The build being loaded or aggregated.
CurrentBuild == uncached_builds[build_idx]

\* A loaded file as a build record.
AsRecord(loaded) ==
    [name |-> loaded.name, date |-> loaded.date, overall |-> loaded.overall,
     platforms |-> loaded.platforms]

\* One pass of "Load cached builds first"; an exception of the load ends
\* the request in the outer except.
LoadCached ==
    /\ pc = "load_cached"
    /\ LET build_ms == cached_builds[load_idx]
           csv_file == CachePath(inputs.cache_dir, inputs.release_milestone, build_ms.name)
           loaded == load_build_data_from_csv(disk[csv_file])
       IN  IF loaded.raised
           THEN EndRequest("error") /\ UNCHANGED log
           ELSE /\ all_data' = [all_data EXCEPT !.builds = Append(@, AsRecord(loaded))]
                /\ Logged("read_cache", build_ms.id, 0)
                /\ IF load_idx < Len(cached_builds)
                   THEN load_idx' = load_idx + 1 /\ pc' = "load_cached"
                   ELSE load_idx' = 0 /\ pc' = "next_build"
                /\ UNCHANGED <<outcome, resolveVars, build_data, build_idx, milestone_plans,
                               plan_idx, runs, run_idx, run>>
    /\ UNCHANGED <<budget, inputs, atClick, storeVars>>
    /\ UNCHANGED <<csvVars, pgVars, rbVars, fnVars>>

\* open(csv_file, 'r') or the reading raises (the file is gone, unreadable
\* or not in the format): no try stands around the load, the outer except
\* ends the request.
LoadCachedFails ==
    /\ pc = "load_cached"
    /\ Fault
    /\ FaultUsed
    /\ EndRequest("error")
    /\ log' = Append(log, Raised("read_cache", cached_builds[load_idx].id, 0))
    /\ UNCHANGED <<inputs, atClick, storeVars>>
    /\ UNCHANGED <<csvVars, pgVars, rbVars, fnVars>>

\* The decoding of plans_response.
DecodePlans(response) ==
    IF response.type = "dict"
    THEN IF "plans" \in response.keys THEN response.value["plans"]
         ELSE IF "result" \in response.keys THEN response.value["result"]
         ELSE IF "data" \in response.keys THEN response.value["data"]
         ELSE <<>>
    ELSE IF response.type = "list" THEN response.items
    ELSE <<>>

\* [p for p in plans if p.get('milestone_id') == build_ms['id']]
PlansOf(plans, build_ms) == SelectSeq(plans, LAMBDA q : q.milestone_id = build_ms.id)

\* A head of the loop that goes on to the write for a build without plans.
EnterBuildWithoutSkip(plans) ==
    LET mine == PlansOf(plans, CurrentBuild) IN
    /\ build_data' = NewBuildData(CurrentBuild)
    /\ IF Len(mine) = 0
       THEN /\ pc' = "persist"
            /\ UNCHANGED <<milestone_plans, plan_idx, build_idx>>
       ELSE /\ milestone_plans' = mine
            /\ plan_idx' = 1
            /\ pc' = "get_plan"
            /\ UNCHANGED build_idx
    /\ UNCHANGED <<outcome, resolveVars, all_data, load_idx, runs, run_idx, run>>

\* The head of the loop over uncached_builds once the plans are known:
\* `continue` when none is of this build.
EnterBuild(plans) ==
    LET mine == PlansOf(plans, CurrentBuild) IN
    /\ build_data' = NewBuildData(CurrentBuild)
    /\ IF Len(mine) = 0
       THEN /\ build_idx' = build_idx + 1
            /\ pc' = "next_build"
            /\ UNCHANGED <<milestone_plans, plan_idx>>
       ELSE /\ milestone_plans' = mine
            /\ plan_idx' = 1
            /\ pc' = "get_plan"
            /\ UNCHANGED build_idx
    /\ UNCHANGED <<outcome, resolveVars, all_data, load_idx, runs, run_idx, run>>

\* The first uncached build of the session: api.get_plans, memoized.
GetPlansOf(response) ==
    /\ pc = "next_build"
    /\ build_idx <= Len(uncached_builds)
    /\ ~session.has_plans
    /\ session' = [session EXCEPT !.has_plans = TRUE,
                                  !.all_plans_cache = DecodePlans(response)]
    /\ EnterBuild(DecodePlans(response))
    /\ Logged("get_plans", CurrentBuild.id, 0)
    /\ UNCHANGED <<budget, inputs, atClick, disk>>
    /\ UNCHANGED <<csvVars, pgVars, rbVars, fnVars>>

GetPlans == \E response \in PlanResponses : GetPlansOf(response)

\* A later uncached build: the memoized plans.
StartBuild ==
    /\ pc = "next_build"
    /\ build_idx <= Len(uncached_builds)
    /\ session.has_plans
    /\ EnterBuild(session.all_plans_cache)
    /\ UNCHANGED <<budget, inputs, atClick, storeVars, log>>
    /\ UNCHANGED <<csvVars, pgVars, rbVars, fnVars>>

\* "Save to cache" inside the loop over the plans.
PersistAfterEachPlan ==
    /\ plan_idx' = 0
    /\ pc' = "persist"

\* After the last plan of the build comes "Save to cache".
AdvancePlan ==
    IF plan_idx < Len(milestone_plans)
    THEN /\ plan_idx' = plan_idx + 1
         /\ pc' = "get_plan"
    ELSE /\ plan_idx' = 0
         /\ pc' = "persist"

\* The run with the locals computed before api.get_run: platform and
\* device_type.
RunLocals(r) ==
    [id |-> r.id, name |-> r.name, suite_id |-> r.suite_id,
     platform |-> extract_platform(r.name), device_type |-> categorize_device(r.name),
     summary |-> Summary(0, 0, 0, 0, 0, 0, 0), results |-> <<>>,
     test_to_case |-> <<>>, case_to_section_id |-> <<>>]

RunClassified(r) == Classified(r.platform, r.device_type)

\* The run is over (counted, skipped or failed): the next run, plan or
\* the end of the build.
AdvanceRun ==
    IF run_idx < Len(runs)
    THEN /\ run_idx' = run_idx + 1
         /\ run' = RunLocals(runs[run_idx + 1])
         /\ pc' = "get_run"
         /\ UNCHANGED <<runs, plan_idx>>
    ELSE /\ run_idx' = 0
         /\ run' = NoRun
         /\ runs' = <<>>
         /\ AdvancePlan

\* api.get_plan answers: the runs of its entries.
GetPlan ==
    /\ pc = "get_plan"
    /\ \E rs \in PlanDetails(milestone_plans[plan_idx].id) :
          IF Len(rs) = 0
          THEN AdvancePlan /\ UNCHANGED <<runs, run_idx, run>>
          ELSE /\ runs' = rs
               /\ run_idx' = 1
               /\ run' = RunLocals(rs[1])
               /\ pc' = "get_run"
               /\ UNCHANGED plan_idx
    /\ Logged("get_plan", CurrentBuild.id, milestone_plans[plan_idx].id)
    /\ UNCHANGED <<budget, inputs, atClick, outcome, storeVars, resolveVars, all_data,
                   build_data, load_idx, build_idx, milestone_plans>>
    /\ UNCHANGED <<csvVars, pgVars, rbVars, fnVars>>

\* api.get_plan raises and the build is given up: the next build, without
\* the append and the write.
GetPlanFailsSkipsBuild ==
    /\ pc = "get_plan"
    /\ Fault
    /\ FaultUsed
    /\ plan_idx' = 0
    /\ build_idx' = build_idx + 1
    /\ pc' = "next_build"
    /\ log' = Append(log, Raised("get_plan", CurrentBuild.id, milestone_plans[plan_idx].id))
    /\ UNCHANGED <<inputs, atClick, outcome, storeVars, resolveVars, all_data,
                   build_data, load_idx, milestone_plans, runs, run_idx, run>>
    /\ UNCHANGED <<csvVars, pgVars, rbVars, fnVars>>

\* api.get_plan raises: a warning, and the next plan.
GetPlanFails ==
    /\ pc = "get_plan"
    /\ Fault
    /\ FaultUsed
    /\ AdvancePlan
    /\ log' = Append(log, Raised("get_plan", CurrentBuild.id, milestone_plans[plan_idx].id))
    /\ UNCHANGED <<inputs, atClick, outcome, storeVars, resolveVars, all_data,
                   build_data, load_idx, build_idx, milestone_plans, runs, run_idx, run>>
    /\ UNCHANGED <<csvVars, pgVars, rbVars, fnVars>>

\* "If we didn't get results, use summary data", up to the section
\* request if one is due.
SummaryTier(r) ==
    LET c == SummaryCounts(r.summary)
        bd == Accumulate(build_data, r.platform, r.device_type, c)
        total == r.summary.failed + r.summary.error
    IN  IF RunClassified(r) /\ total > 0
        THEN IF inputs.fetch_sections
             THEN IF r.suite_id # 0
                  THEN /\ build_data' = bd
                       /\ run' = r
                       /\ pc' = "estimate_sections"
                       /\ UNCHANGED <<runs, run_idx, plan_idx>>
                  ELSE /\ build_data' = AddSection(bd, r.platform, r.device_type,
                                                   L_NoSuiteInfo, total)
                       /\ AdvanceRun
             ELSE /\ build_data' = AddSection(bd, r.platform, r.device_type,
                                              L_DetailsNotAvailable, total)
                  /\ AdvanceRun
        ELSE /\ build_data' = bd
             /\ AdvanceRun

\* The answer of api.get_run as the log keeps it.
RunAnswered(build_id, run_id, summary) ==
    [Event("get_run", build_id, run_id) EXCEPT !.executed = ExecutedCount(summary)]

\* A skip that forgets the runs whose tests are all untested.
SkipRunWithoutTests(summary) == TestCount(summary) = 0

\* if test_count == 0 or executed_count == 0: continue
SkipRun(summary) == TestCount(summary) = 0 \/ ExecutedCount(summary) = 0

\* The detail tier is tried whatever the executed count.
DetailTierUnbounded(summary) == ~inputs.force_summary_only

\* if force_summary_only: ... elif executed_count < 10000: the detail tier
\* is tried.
DetailTierDue(summary) ==
    ~inputs.force_summary_only /\ ExecutedCount(summary) < DetailCeiling

\* The summaries api.get_run may answer with: a large one only as long as
\* the budget has one.
RunSummaries ==
    SkippedSummaries \cup CountedSummaries
    \cup (IF budget.large > 0 THEN LargeSummaries ELSE {})

\* api.get_run answers with the run's summary counts.
GetRun ==
    /\ pc = "get_run"
    /\ \E summary \in RunSummaries :
          LET r == [run EXCEPT !.summary = summary] IN
          /\ log' = Append(log, RunAnswered(CurrentBuild.id, run.id, summary))
          /\ IF SkipRun(summary)
             THEN /\ AdvanceRun
                  /\ UNCHANGED <<build_data, budget>>
             ELSE /\ budget.runs > 0
                  /\ budget' = [budget EXCEPT
                                  !.runs = @ - 1,
                                  !.large = IF summary \in LargeSummaries THEN @ - 1 ELSE @]
                  /\ IF DetailTierDue(summary)
                     THEN /\ run' = r
                          /\ pc' = "get_results"
                          /\ UNCHANGED <<build_data, runs, run_idx, plan_idx>>
                     ELSE SummaryTier(r)
    /\ UNCHANGED <<inputs, atClick, outcome, storeVars, resolveVars, all_data,
                   load_idx, build_idx, milestone_plans>>
    /\ UNCHANGED <<csvVars, pgVars, rbVars, fnVars>>

\* api.get_run raises and nothing catches it before the outer except.
GetRunFailsAborts ==
    /\ pc = "get_run"
    /\ Fault
    /\ FaultUsed
    /\ EndRequest("error")
    /\ log' = Append(log, Raised("get_run", CurrentBuild.id, run.id))
    /\ UNCHANGED <<inputs, atClick, storeVars>>
    /\ UNCHANGED <<csvVars, pgVars, rbVars, fnVars>>

\* api.get_run raises: a warning, and the next run.
GetRunFails ==
    /\ pc = "get_run"
    /\ Fault
    /\ FaultUsed
    /\ AdvanceRun
    /\ log' = Append(log, Raised("get_run", CurrentBuild.id, run.id))
    /\ UNCHANGED <<inputs, atClick, outcome, storeVars, resolveVars, all_data,
                   build_data, load_idx, build_idx, milestone_plans>>
    /\ UNCHANGED <<csvVars, pgVars, rbVars, fnVars>>

\* The answer of api.get_results_for_run as the log keeps it.
ResultsAnswered(build_id, run_id, results) ==
    [Event("get_results", build_id, run_id) EXCEPT !.returned = Len(results)]

\* api.get_results_for_run answers (it never raises: a failed page ends
\* its loop).  Results make the detail tier, none the summary tier.
GetResultsOf(results) ==
    /\ pc = "get_results"
    /\ log' = Append(log, ResultsAnswered(CurrentBuild.id, run.id, results))
    /\ IF Len(results) > 0
       THEN LET temp == TempCounts(results)
                total == temp.failed + temp.error
                bd == Accumulate(build_data, run.platform, run.device_type, temp)
            IN  IF total > 0 /\ RunClassified(run)
                THEN IF inputs.fetch_sections
                     THEN IF run.suite_id # 0
                          THEN /\ build_data' = bd
                               /\ run' = [run EXCEPT !.results = results]
                               /\ pc' = "get_tests"
                               /\ UNCHANGED <<runs, run_idx, plan_idx>>
                          ELSE /\ build_data' = AddSection(bd, run.platform, run.device_type,
                                                           L_NoSuiteID, total)
                               /\ AdvanceRun
                     ELSE /\ build_data' = AddSection(bd, run.platform, run.device_type,
                                                      L_NotFetched, total)
                          /\ AdvanceRun
                ELSE /\ build_data' = bd
                     /\ AdvanceRun
       ELSE SummaryTier(run)
    /\ UNCHANGED <<budget, inputs, atClick, outcome, storeVars, resolveVars, all_data,
                   load_idx, build_idx, milestone_plans>>
    /\ UNCHANGED <<csvVars, pgVars, rbVars, fnVars>>

GetResults == \E results \in ResultLists : GetResultsOf(results)

\* failed + error of the results of the run being mapped.
MappedTotal == TempCounts(run.results).failed + TempCounts(run.results).error

\* Step 1 of the mapping: api.get_tests.
GetTests ==
    /\ pc = "get_tests"
    /\ \E tests \in TestLists :
          run' = [run EXCEPT !.test_to_case = IdDict(tests, "id", "case_id")]
    /\ pc' = "get_cases"
    /\ Logged("get_tests", CurrentBuild.id, run.id)
    /\ UNCHANGED <<budget, inputs, atClick, outcome, storeVars, resolveVars, all_data, build_data, load_idx,
                   build_idx, milestone_plans, plan_idx, runs, run_idx>>
    /\ UNCHANGED <<csvVars, pgVars, rbVars, fnVars>>

\* Step 2: api.get_cases.
GetCases ==
    /\ pc = "get_cases"
    /\ \E cases \in CaseLists :
          run' = [run EXCEPT !.case_to_section_id = IdDict(cases, "id", "section_id")]
    /\ pc' = "get_sections"
    /\ Logged("get_cases", CurrentBuild.id, run.id)
    /\ UNCHANGED <<budget, inputs, atClick, outcome, storeVars, resolveVars, all_data, build_data, load_idx,
                   build_idx, milestone_plans, plan_idx, runs, run_idx>>
    /\ UNCHANGED <<csvVars, pgVars, rbVars, fnVars>>

\* Steps 3 and 4: api.get_sections and the attribution.
GetSections ==
    /\ pc = "get_sections"
    /\ \E sections \in SectionLists :
          build_data' = MapSections(build_data, run.platform, run.device_type, run.results,
                                    TempCounts(run.results), run.test_to_case,
                                    run.case_to_section_id, NameDict(sections))
    /\ AdvanceRun
    /\ Logged("get_sections", CurrentBuild.id, run.id)
    /\ UNCHANGED <<budget, inputs, atClick, outcome, storeVars, resolveVars, all_data, load_idx, build_idx,
                   milestone_plans>>
    /\ UNCHANGED <<csvVars, pgVars, rbVars, fnVars>>

\* The request a mapping step makes.
MappingRequest ==
    CASE pc = "get_tests" -> "get_tests"
      [] pc = "get_cases" -> "get_cases"
      [] OTHER -> "get_sections"

\* A request of the mapping raises: the failures go under the label of
\* the error, str(e)[:50].
MappingFails ==
    /\ pc \in {"get_tests", "get_cases", "get_sections"}
    /\ Fault
    /\ FaultUsed
    /\ build_data' = AddSection(build_data, run.platform, run.device_type,
                                L_MappingError \o Slice(ErrText, 1, 50), MappedTotal)
    /\ AdvanceRun
    /\ log' = Append(log, Raised(MappingRequest, CurrentBuild.id, run.id))
    /\ UNCHANGED <<inputs, atClick, outcome, storeVars, resolveVars, all_data, load_idx,
                   build_idx, milestone_plans>>
    /\ UNCHANGED <<csvVars, pgVars, rbVars, fnVars>>

\* The summary tier's api.get_sections and the estimate.
EstimateStep ==
    /\ pc = "estimate_sections"
    /\ \E sections \in SectionLists :
          build_data' = EstimateSections(build_data, run.platform, run.device_type, sections,
                                         run.summary.failed + run.summary.error)
    /\ AdvanceRun
    /\ Logged("get_sections", CurrentBuild.id, run.id)
    /\ UNCHANGED <<budget, inputs, atClick, outcome, storeVars, resolveVars, all_data, load_idx, build_idx,
                   milestone_plans>>
    /\ UNCHANGED <<csvVars, pgVars, rbVars, fnVars>>

\* The summary tier's api.get_sections raises.
EstimateFails ==
    /\ pc = "estimate_sections"
    /\ Fault
    /\ FaultUsed
    /\ build_data' = AddSection(build_data, run.platform, run.device_type, L_NotAvailable,
                                run.summary.failed + run.summary.error)
    /\ AdvanceRun
    /\ log' = Append(log, Raised("get_sections", CurrentBuild.id, run.id))
    /\ UNCHANGED <<inputs, atClick, outcome, storeVars, resolveVars, all_data, load_idx,
                   build_idx, milestone_plans>>
    /\ UNCHANGED <<csvVars, pgVars, rbVars, fnVars>>

\* A save whose record goes to the head of the aggregate.
PersistPrepends ==
    /\ pc = "persist"
    /\ all_data' = [all_data EXCEPT !.builds = <<build_data>> \o @]
    /\ disk' = DictPut(disk, SavePath(inputs.cache_dir, inputs.release_milestone,
                                      build_data.name),
                       save_build_data_to_csv(build_data))
    /\ build_idx' = build_idx + 1
    /\ pc' = "next_build"
    /\ Logged("write_cache", CurrentBuild.id, 0)
    /\ UNCHANGED <<budget, inputs, atClick, outcome, session, resolveVars, build_data, load_idx,
                   milestone_plans, plan_idx, runs, run_idx, run>>
    /\ UNCHANGED <<csvVars, pgVars, rbVars, fnVars>>

\* all_data['builds'].append(build_data), then "Save to cache".
Persist ==
    /\ pc = "persist"
    /\ all_data' = [all_data EXCEPT !.builds = Append(@, build_data)]
    /\ disk' = DictPut(disk, SavePath(inputs.cache_dir, inputs.release_milestone,
                                      build_data.name),
                       save_build_data_to_csv(build_data))
    /\ build_idx' = build_idx + 1
    /\ pc' = "next_build"
    /\ Logged("write_cache", CurrentBuild.id, 0)
    /\ UNCHANGED <<budget, inputs, atClick, outcome, session, resolveVars, build_data, load_idx,
                   milestone_plans, plan_idx, runs, run_idx, run>>
    /\ UNCHANGED <<csvVars, pgVars, rbVars, fnVars>>

\* A failed save that stores the records aggregated so far before the
\* request ends.
PersistFailsStoresPartial ==
    /\ pc = "persist"
    /\ Fault
    /\ FaultUsed
    /\ EndRequest("error")
    /\ log' = Append(log, Raised("write_cache", CurrentBuild.id, 0))
    /\ session' = [session EXCEPT !.has_data = TRUE, !.testrail_data = all_data]
    /\ UNCHANGED <<inputs, atClick, disk>>
    /\ UNCHANGED <<csvVars, pgVars, rbVars, fnVars>>

\* save_build_data_to_csv raises at os.makedirs or open (nothing is
\* written): no try stands around the save, the outer except ends the
\* request after the append.
PersistFails ==
    /\ pc = "persist"
    /\ Fault
    /\ FaultUsed
    /\ EndRequest("error")
    /\ log' = Append(log, Raised("write_cache", CurrentBuild.id, 0))
    /\ UNCHANGED <<inputs, atClick, storeVars>>
    /\ UNCHANGED <<csvVars, pgVars, rbVars, fnVars>>

\* "Store in session state", after the last build.
Finish ==
    /\ pc = "next_build"
    /\ build_idx > Len(uncached_builds)
    /\ session' = [session EXCEPT !.has_data = TRUE, !.testrail_data = all_data]
    /\ EndRequest("done")
    /\ UNCHANGED <<budget, inputs, atClick, log, disk>>
    /\ UNCHANGED <<csvVars, pgVars, rbVars, fnVars>>

\* The counted runs and the raised exceptions of a request.
MaxRuns == 2

MaxFaults == 1

\* A record an earlier session aggregated for the build T-202506022349.
EarlierRecord ==
    [name |-> N_A, date |-> DateString(parse_build_date(N_A)),
     overall |-> [ZeroOverall EXCEPT !.passed = 1, !.failed = 1],
     platforms |-> SetBucket(NoPlatforms, extract_platform(RunSingle), "single",
                             [ZeroBucket EXCEPT !.failed = 1])]

\* The cache directory at the start of a session: empty, or with the file
\* an earlier session wrote.
InitialDisks ==
    { <<>>,
      DictPut(<<>>, SavePath(CacheDir, R_CS1, EarlierRecord.name),
              save_build_data_to_csv(EarlierRecord)) }

\* One request of a fresh session.
Init ==
    /\ CsvIdle
    /\ PgIdle
    /\ RbIdle
    /\ FnIdle
    /\ \E files \in InitialDisks : HandlerStart(1, MaxRuns, MaxFaults, 0, files)

Next ==
    \/ Click
    \/ GetMilestones
    \/ GetMilestoneDetail
    \/ GetMilestoneDetailFails
    \/ LoadCached
    \/ LoadCachedFails
    \/ GetPlans
    \/ StartBuild
    \/ GetPlan
    \/ GetPlanFails
    \/ GetRun
    \/ GetRunFails
    \/ GetResults
    \/ GetTests
    \/ GetCases
    \/ GetSections
    \/ MappingFails
    \/ EstimateStep
    \/ EstimateFails
    \/ Persist
    \/ PersistFails
    \/ Finish

Spec == Init /\ [][Next]_vars

\* A session: the requests of one st.session_state, the cache directory
\* empty at its start.
SessionRequests == 2

SessionRuns == 1

InitSession ==
    /\ CsvIdle
    /\ PgIdle
    /\ RbIdle
    /\ FnIdle
    /\ HandlerStart(SessionRequests, SessionRuns, MaxFaults, 0, <<>>)

\* The user of a session leaves "Fetch Section Details" and "Force
\* summary only" unchecked at every click: the requests of a session go
\* through the detail tier and make no section request.
SessionClick ==
    /\ Click
    /\ ~inputs'.fetch_sections
    /\ ~inputs'.force_summary_only

NextSession ==
    \/ SessionClick
    \/ GetMilestones
    \/ GetMilestoneDetail
    \/ GetMilestoneDetailFails
    \/ LoadCached
    \/ LoadCachedFails
    \/ GetPlans
    \/ StartBuild
    \/ GetPlan
    \/ GetPlanFails
    \/ GetRun
    \/ GetRunFails
    \/ GetResults
    \/ Persist
    \/ PersistFails
    \/ Finish

SpecSession == InitSession /\ [][NextSession]_vars

\* One request whose runs may be large: at most TierRuns counted runs, of
\* which at most MaxLarge stand at the ceiling of the detail tier.
TierRuns == 1

MaxLarge == 1

InitTiers ==
    /\ CsvIdle
    /\ PgIdle
    /\ RbIdle
    /\ FnIdle
    /\ \E files \in InitialDisks : HandlerStart(1, TierRuns, MaxFaults, MaxLarge, files)

SpecTiers == InitTiers /\ [][Next]_vars

(***************************************************************************)
(* Properties of the "Fetch Data" handler                                  *)
(***************************************************************************)
Positions == 1..Len(log)

\* The requests made on behalf of one build.
BuildOps == {"get_plan", "get_run", "get_results", "get_tests", "get_cases", "get_sections"}

\* The requests made on behalf of one run after its summary.
RunOps == {"get_results", "get_tests", "get_cases", "get_sections"}

\* The step added one entry to the log.
LoggedOne == Len(log') = Len(log) + 1

LastLogged == log'[Len(log')]

RECURSIVE SumPlatforms(_, _, _)
SumPlatforms(platforms, names, k) ==
    IF names = {} THEN 0
    ELSE LET p == CHOOSE x \in names : TRUE IN
         platforms[p].single[k] + platforms[p].stack[k]
             + SumPlatforms(platforms, names \ {p}, k)

\* The sum of a count over all platform/topology buckets of a record.
BucketSum(bd, k) == SumPlatforms(bd.platforms, DOMAIN bd.platforms, k)

OverallCoversBuckets(bd) ==
    \A k \in {"passed", "failed", "error"} : bd.overall[k] >= BucketSum(bd, k)

\* A step on a run whose platform or topology is unknown.
UnclassifiedRunStep ==
    /\ pc \in {"get_run", "get_results"}
    /\ ~RunClassified(run)

\* C2: during a build's aggregation the overall passed, failed and error
\* counts are each at least the sum of that count over all buckets, and a
\* step that handles a run of unknown platform or unknown topology leaves
\* every bucket as it was.
C2_OverallCoversBuckets ==
    /\ [](OverallCoversBuckets(build_data))
    /\ [][UnclassifiedRunStep => build_data'.platforms = build_data.platforms]_vars

\* A build whose record holds a classified run's failures in a bucket and
\* more failures overall, from a run counted in overall only.
C2_Witness ==
    /\ pc = "persist"
    /\ BucketSum(build_data, "failed") > 0
    /\ build_data.overall.failed > BucketSum(build_data, "failed")

WritesOf(b) == {i \in Positions : log[i].op = "write_cache" /\ log[i].build = b}

PlanRequestsOf(b) == {i \in Positions : log[i].op = "get_plan" /\ log[i].build = b}

\* C3: an uncached build with a matching plan gets exactly one cache
\* write, after every request for its plans and runs and before any such
\* request for a later build; a build without a matching plan gets none, and
\* no build is written while its aggregation is in progress.
C3_PersistOrdering ==
    /\ \A k \in 1..Len(uncached_builds) :
          LET b == uncached_builds[k].id
              plans == PlansOf(session.all_plans_cache, uncached_builds[k])
          IN  /\ k < build_idx =>
                    /\ Cardinality(WritesOf(b)) = IF Len(plans) > 0 THEN 1 ELSE 0
                    /\ Len(plans) > 0 =>
                          /\ Cardinality(PlanRequestsOf(b)) = Len(plans)
                          /\ \A i \in Positions : \A w \in WritesOf(b) :
                                (log[i].build = b /\ log[i].op \in BuildOps) => i < w
              /\ k >= build_idx => WritesOf(b) = {}
              /\ k > build_idx =>
                    \A i \in Positions : log[i].build = b => log[i].op \notin BuildOps
    /\ \A i \in Positions : \A j \in Positions :
          (/\ i < j
           /\ log[i].op \in BuildOps
           /\ log[j].op \in BuildOps
           /\ log[i].build # log[j].build)
          => \E w \in WritesOf(log[i].build) : i < w /\ w < j

\* Two builds written in one request, the second after requests for its
\* own plan and run that follow the first write.
C3_Witness ==
    /\ outcome = "done"
    /\ \E i \in Positions, j \in Positions, k \in Positions, l \in Positions :
          /\ i < j /\ j < k /\ k < l
          /\ log[i].op = "get_run"
          /\ log[j].op = "write_cache" /\ log[j].build = log[i].build
          /\ log[k].op = "get_run" /\ log[k].build # log[i].build
          /\ log[l].op = "write_cache" /\ log[l].build = log[k].build

\* C4: in a request with cache use on, a selected build whose file was
\* there when the request started is classified as cached and not as
\* uncached, its record is the one loaded from that file, and nothing but
\* the existence check and the read is done for it: no plan, run, result or
\* section request and no write, whatever the server answers.
C4_CachedBuildTrusted ==
    (pc # "idle" /\ inputs.use_cache) =>
        \A k \in 1..Len(build_milestones) :
            LET b == build_milestones[k]
                path == CachePath(inputs.cache_dir, inputs.release_milestone, b.name)
            IN  FileExists(atClick.disk, path) =>
                   /\ \A u \in 1..Len(uncached_builds) : uncached_builds[u] # b
                   /\ \A i \in Positions :
                         log[i].build = b.id => log[i].op \in {"exists", "read_cache"}
                   /\ \E c \in 1..Len(cached_builds) :
                         /\ cached_builds[c] = b
                         /\ (pc # "load_cached" \/ c < load_idx) =>
                               /\ \E i \in Positions :
                                     log[i].op = "read_cache" /\ log[i].build = b.id
                               /\ all_data.builds[c] =
                                     AsRecord(load_build_data_from_csv(atClick.disk[path]))

\* The second request of a session has loaded a record with failures that
\* the first request wrote.
C4_Witness ==
    /\ budget.requests = 0
    /\ pc = "next_build"
    /\ Len(cached_builds) > 0
    /\ atClick.session.has_data
    /\ all_data.builds[1].overall.failed > 0
    /\ \E i \in Positions : log[i].op = "read_cache"

\* The entries of sq at the places in S, in the order of sq.
RECURSIVE AtPlaces(_, _)
AtPlaces(sq, S) ==
    IF Len(sq) = 0 THEN <<>>
    ELSE LET front == AtPlaces(SubSeq(sq, 1, Len(sq) - 1), S) IN
         IF Len(sq) \in S THEN Append(front, sq[Len(sq)]) ELSE front

\* The places of the selected builds whose cache file was there when the
\* builds were checked (nothing is written between the click and the
\* check).
CachedPlaces ==
    {k \in 1..Len(build_milestones) :
        FileExists(atClick.disk, CachePath(inputs.cache_dir, inputs.release_milestone,
                                           build_milestones[k].name))}

\* The requests sent to the server on behalf of one build.
NetworkOps == {"get_plans", "get_plan", "get_run", "get_results", "get_tests", "get_cases",
               "get_sections"}

\* C25: with the cache in use the selected builds are split into the cached
\* ones, whose file exists, and the uncached ones: each selected build is
\* in exactly one of the two lists, and each list keeps the order of the
\* selection; no request is sent to the server for a cached build, and once
\* the cached builds are loaded the k-th record of the aggregate is the one
\* read from the file of the k-th cached build.
C25_CachePartition ==
    (pc \notin {"idle", "get_milestones", "get_milestone"} /\ inputs.use_cache) =>
        /\ cached_builds = AtPlaces(build_milestones, CachedPlaces)
        /\ uncached_builds =
              AtPlaces(build_milestones, (1..Len(build_milestones)) \ CachedPlaces)
        /\ \A c \in 1..Len(cached_builds) :
              /\ \A i \in Positions :
                    log[i].build = cached_builds[c].id => log[i].op \notin NetworkOps
              /\ (pc # "load_cached" \/ c < load_idx) =>
                    all_data.builds[c] =
                       AsRecord(load_build_data_from_csv(
                          atClick.disk[CachePath(inputs.cache_dir, inputs.release_milestone,
                                                 cached_builds[c].name)]))

\* Of two selected builds the later is cached and loaded, the earlier is
\* uncached and its plans are being fetched.
C25_Witness ==
    /\ inputs.use_cache
    /\ Len(build_milestones) = 2
    /\ cached_builds = <<build_milestones[1]>>
    /\ uncached_builds = <<build_milestones[2]>>
    /\ pc = "get_plan"
    /\ Len(all_data.builds) = 1

\* No plan of the list has the build's id as its milestone_id.
NoPlanFor(plans, b) == \A q \in 1..Len(plans) : plans[q].milestone_id # b.id

\* The file at `path` is as it was at the click.
FileUntouched(path) ==
    /\ FileExists(disk, path) <=> FileExists(atClick.disk, path)
    /\ FileExists(disk, path) => disk[path] = atClick.disk[path]

\* C26: an uncached build for which the memoized plans hold no plan with
\* its id as milestone_id is skipped: the step that enters it goes on to
\* the next build and leaves the aggregate and the cache files as they
\* are; no plan-detail, run, result, test, case or section request and no
\* write is made for it, the aggregate holds no record of it, and its cache
\* file, if no other uncached build shares it, is as it was at the click.
C26_BuildWithoutPlansSkipped ==
    /\ []((pc # "idle" /\ session.has_plans) =>
            \A u \in 1..Len(uncached_builds) :
                LET b == uncached_builds[u]
                    path == CachePath(inputs.cache_dir, inputs.release_milestone, b.name)
                IN  NoPlanFor(session.all_plans_cache, b) =>
                       /\ \A i \in Positions :
                             log[i].build = b.id
                             => log[i].op \notin BuildOps \cup {"write_cache"}
                       /\ \A r \in (Len(cached_builds) + 1)..Len(all_data.builds) :
                             all_data.builds[r].name # b.name
                       /\ (\A v \in 1..Len(uncached_builds) :
                              CachePath(inputs.cache_dir, inputs.release_milestone,
                                        uncached_builds[v].name) = path => v = u)
                          => FileUntouched(path))
    /\ [][(/\ pc = "next_build"
           /\ build_idx <= Len(uncached_builds)
           /\ session'.has_plans
           /\ NoPlanFor(session'.all_plans_cache, CurrentBuild))
          => /\ pc' = "next_build"
             /\ build_idx' = build_idx + 1
             /\ all_data' = all_data
             /\ disk' = disk]_vars

\* Of two uncached builds the first was aggregated and written, the second
\* has no plan and was skipped: the loop is over with one record.
C26_Witness ==
    /\ pc = "next_build"
    /\ session.has_plans
    /\ Len(uncached_builds) = 2
    /\ build_idx = 3
    /\ ~NoPlanFor(session.all_plans_cache, uncached_builds[1])
    /\ NoPlanFor(session.all_plans_cache, uncached_builds[2])
    /\ Len(all_data.builds) = 1
    /\ \E i \in Positions : log[i].op = "write_cache" /\ log[i].build = uncached_builds[1].id

\* The read of a cache file or the write of one has just raised.
CacheFileRaised ==
    /\ LoggedOne
    /\ LastLogged.op \in {"read_cache", "write_cache"}
    /\ LastLogged.raised

\* C27: an exception raised while one build is processed, by the read of
\* its cache file or by the write of it, does not end the request: the
\* handler goes on with the next build (or stores the aggregate when it was
\* the last) and the records aggregated so far are kept.
C27_BuildFailureSkipped ==
    [][CacheFileRaised =>
          /\ pc' \in {"load_cached", "next_build"}
          /\ outcome' = "running"
          /\ all_data'.builds \in {all_data.builds, Append(all_data.builds, build_data)}]_vars

\* What the handler does: the request ends in the outer except, and the
\* session keeps the aggregate it held at the click, without the records
\* of the other builds of this request.
CacheFileFailureEndsRequest ==
    [][CacheFileRaised =>
          /\ pc' = "idle"
          /\ outcome' = "error"
          /\ session'.has_data = atClick.session.has_data
          /\ session'.testrail_data = atClick.session.testrail_data]_vars

\* The write of the second build raised after the first was aggregated and
\* written: the request ended without storing the first build's record.
SecondWriteRaised ==
    /\ pc = "idle"
    /\ outcome = "error"
    /\ ~session.has_data
    /\ Len(log) > 0
    /\ log[Len(log)].op = "write_cache"
    /\ log[Len(log)].raised
    /\ \E i \in Positions : log[i].op = "write_cache" /\ ~log[i].raised

PlansListings == {i \in Positions : log[i].op = "get_plans"}

\* C5: a request lists the plans at most once and not at all when the
\* session held the memoized plans at its start; a listing leaves the plans
\* memoized; the memoized plans, once set, never change; every build entered is given the plans of the
\* memoized list whose milestone_id is its id.
C5_PlansListedOnce ==
    /\ [](/\ Cardinality(PlansListings) <= 1
          /\ atClick.session.has_plans => PlansListings = {}
          /\ PlansListings # {} => session.has_plans)
    /\ [][/\ session.has_plans =>
                /\ session'.has_plans
                /\ session'.all_plans_cache = session.all_plans_cache
          /\ (pc = "next_build" /\ pc' = "get_plan") =>
                /\ session'.has_plans
                /\ milestone_plans' = PlansOf(session'.all_plans_cache,
                                              uncached_builds[build_idx])]_vars

\* The second request of a session works on an uncached build with the
\* plans memoized by the first, without a listing of its own.
C5_Witness ==
    /\ budget.requests = 0
    /\ atClick.session.has_plans
    /\ pc = "get_plan"
    /\ Len(milestone_plans) > 0
    /\ PlansListings = {}

\* A summary without an executed test; one without any test is such a
\* summary.
SkippedAnswer(e) == e.op = "get_run" /\ ~e.raised /\ e.executed = 0

\* C8: the step that receives a run summary with no test, or with no
\* executed test, leaves the build's record (overall, buckets, sections)
\* unchanged, and no result, test, case or section request is made for
\* that run.
C8_SkippedRun ==
    /\ [](\A i \in Positions : SkippedAnswer(log[i]) =>
             \A j \in Positions :
                 (log[j].build = log[i].build /\ log[j].id = log[i].id)
                 => log[j].op \notin RunOps)
    /\ [][(LoggedOne /\ SkippedAnswer(LastLogged)) => build_data' = build_data]_vars

\* A run was skipped after a sibling's results were counted.
C8_Witness ==
    /\ pc = "persist"
    /\ build_data.overall # ZeroOverall
    /\ \E i \in Positions, j \in Positions :
          /\ i < j
          /\ log[i].op = "get_results"
          /\ SkippedAnswer(log[j])
          /\ log[j].build = log[i].build

RaisedLast(op) == LoggedOne /\ LastLogged.op = op /\ LastLogged.raised

\* The name of a build milestone of the server.
NameOfBuild(id) == (CHOOSE b \in {BA, BB, BC, BX} : b.id = id).name

RecordsOf(data, nm) == {i \in 1..Len(data.builds) : data.builds[i].name = nm}

\* C9: when get_plan raises the build's record is unchanged and the next
\* plan, or the write after the last plan, follows; when get_run raises
\* the record is unchanged and the next run, plan or write follows; a
\* request that ends normally has written and stored the record of every
\* build for which a plan or run request raised.
C9_SkipAndContinue ==
    /\ [](outcome = "done" =>
             \A i \in Positions :
                 (log[i].raised /\ log[i].op \in {"get_plan", "get_run"}) =>
                     /\ \E w \in WritesOf(log[i].build) : i < w
                     /\ RecordsOf(session.testrail_data, NameOfBuild(log[i].build)) # {})
    /\ [][/\ RaisedLast("get_plan") =>
                /\ build_data' = build_data
                /\ all_data' = all_data
                /\ IF plan_idx < Len(milestone_plans)
                   THEN pc' = "get_plan" /\ plan_idx' = plan_idx + 1
                        /\ milestone_plans' = milestone_plans
                   ELSE pc' = "persist"
          /\ RaisedLast("get_run") =>
                /\ build_data' = build_data
                /\ all_data' = all_data
                /\ IF run_idx < Len(runs)
                   THEN pc' = "get_run" /\ run_idx' = run_idx + 1 /\ runs' = runs
                   ELSE IF plan_idx < Len(milestone_plans)
                   THEN pc' = "get_plan" /\ plan_idx' = plan_idx + 1
                   ELSE pc' = "persist"]_vars

\* A request ended normally although get_run raised for a run of a build
\* after the results of a sibling run were counted, and the stored record
\* of the build holds the sibling's failures.
C9_Witness ==
    /\ outcome = "done"
    /\ session.has_data
    /\ \E i \in Positions, j \in Positions :
          /\ i < j
          /\ log[i].op = "get_results"
          /\ log[j].op = "get_run" /\ log[j].raised
          /\ log[j].build = log[i].build
          /\ \E r \in RecordsOf(session.testrail_data, NameOfBuild(log[j].build)) :
                session.testrail_data.builds[r].overall.failed > 0

\* The milestones were listed and none is named as the selected release.
NoMatch == Len(log) > 0 /\ log[1].op = "get_milestones" /\ log[1].matching = 0

\* C10: when no listed milestone is named as the selected release the
\* request has ended as not found with the listing as its only request:
\* no build resolved, no cache file read, written or checked, the cache
\* files and the session (the stored aggregate and the plans) as they were.
C10_NotFound ==
    NoMatch =>
        /\ pc = "idle"
        /\ outcome = "not_found"
        /\ Len(log) = 1
        /\ build_milestones = <<>>
        /\ all_data = NoData
        /\ disk = atClick.disk
        /\ session = atClick.session

\* Not found in a session that holds an aggregate and cache files from an
\* earlier request.
C10_Witness ==
    /\ NoMatch
    /\ outcome = "not_found"
    /\ session.has_data
    /\ DOMAIN disk # {}

\* The request has ended inside ResolveRelease / ResolveBuilds: the log of
\* an ended request still begins with the listing only then.
EndedInResolution == pc = "idle" /\ Len(log) > 0 /\ log[1].op = "get_milestones"

\* Nothing beyond resolution has happened in the request: no request other
\* than the listing and the detail fetch, no aggregate in the making, the
\* cache files and the session as they were at the click.
NothingBeyondResolution ==
    /\ \A i \in Positions : log[i].op \in {"get_milestones", "get_milestone"}
    /\ build_milestones = <<>>
    /\ all_data = NoData
    /\ disk = atClick.disk
    /\ session = atClick.session

\* The step in which api.get_milestone raises.
DetailFetchFailsStep == pc = "get_milestone" /\ budget'.faults < budget.faults

\* A failed listing and an empty selection do end the request at that step.
ListingFailureAndNoBuildsFatal ==
    /\ (Len(log) > 0 /\ log[1].op = "get_milestones" /\ log[1].raised) =>
          pc = "idle" /\ outcome = "error" /\ Len(log) = 1 /\ NothingBeyondResolution
    /\ outcome = "no_builds" => EndedInResolution /\ NothingBeyondResolution

\* C11: a failure of resolution ends the request at that step: a failed
\* listing, a failed detail fetch and an empty selection each leave the
\* request ended with no cache check, no plan or run request, no cache
\* write and no aggregate.
C11_ResolutionFailureFatal ==
    /\ []ListingFailureAndNoBuildsFatal
    /\ [][DetailFetchFailsStep =>
            /\ pc' = "idle"
            /\ outcome' \in {"error", "no_builds"}
            /\ NothingBeyondResolution']_vars

\* api.get_milestone has raised and the request goes on with builds found
\* by the scan of the listing.
DetailFailureSurvived ==
    /\ budget.faults < MaxFaults
    /\ pc \in {"load_cached", "next_build"}
    /\ build_milestones # <<>>
    /\ all_data # NoData

\* The step adds the counts c to the overall totals of the build's record.
OverallPlus(c) ==
    build_data'.overall = [k \in DOMAIN build_data.overall |-> build_data.overall[k] + c[k]]

\* The step received the summary of a run that is not skipped.
CountedAnswerStep ==
    /\ LoggedOne
    /\ LastLogged.op = "get_run"
    /\ ~LastLogged.raised
    /\ LastLogged.executed > 0

\* The step received the answer of the result fetch.
ResultsAnswerStep == LoggedOne /\ LastLogged.op = "get_results"

\* The summary-only mode is off and the executed count of the summary just
\* received is below 10,000.
DetailAttempted == ~inputs.force_summary_only /\ LastLogged.executed < 10000

\* C19: a run that is not skipped adds to the build's overall totals
\* exactly once. When summary-only mode is off and the executed count is
\* below 10,000 the step that receives the summary adds nothing and the
\* result fetch follows; the step that receives the results adds the counts
\* recomputed from them when at least one record was returned and the
\* summary counts (skipped = untested + skip) when none was. In every other
\* case the step that receives the summary adds the summary counts and no
\* result fetch follows. No other step of the build changes the overall
\* totals, and a result fetch follows nothing but such a summary.
C19_CountedExactlyOnce ==
    /\ [][CountedAnswerStep =>
            IF DetailAttempted
            THEN /\ pc' = "get_results"
                 /\ build_data'.overall = build_data.overall
                 /\ ExecutedCount(run'.summary) = LastLogged.executed
            ELSE /\ pc' # "get_results"
                 /\ \E s \in CountedSummaries \cup LargeSummaries :
                       /\ ExecutedCount(s) = LastLogged.executed
                       /\ OverallPlus(SummaryCounts(s))]_vars
    /\ [][ResultsAnswerStep =>
            /\ pc' # "get_results"
            /\ IF LastLogged.returned > 0
               THEN \E results \in ResultLists :
                       /\ Len(results) = LastLogged.returned
                       /\ OverallPlus(TempCounts(results))
               ELSE OverallPlus(SummaryCounts(run.summary))]_vars
    /\ [][~(CountedAnswerStep \/ ResultsAnswerStep) =>
            /\ pc' = "get_results" => pc = "get_results"
            /\ \/ build_data'.overall = build_data.overall
               \/ build_data'.overall = ZeroOverall]_vars

\* With summary-only mode off a run of 10,000 executed tests was counted
\* from its summary, no result fetch made for it, and the build's record is
\* about to be written.
C19_Witness ==
    /\ pc = "persist"
    /\ ~inputs.force_summary_only
    /\ build_data.overall.passed = 9999
    /\ build_data.overall.skipped = 3
    /\ \E i \in Positions :
          /\ log[i].op = "get_run"
          /\ log[i].executed = 10000
          /\ \A j \in Positions :
                (log[j].build = log[i].build /\ log[j].id = log[i].id)
                => log[j].op # "get_results"

\* A run of 9,999 executed tests was counted from its results.
CountedFromResults ==
    /\ pc = "persist"
    /\ \E i \in Positions, j \in Positions :
          /\ i < j
          /\ log[i].op = "get_run"
          /\ log[i].executed = 9999
          /\ log[j].op = "get_results"
          /\ log[j].returned > 0
          /\ log[j].id = log[i].id
    /\ build_data.overall.passed = 1

\* The builds selected by the step are, in this order, the sorted and
\* retained eligible ones of `children`.
SelectedFrom(children) == build_milestones' = SortAndRetain(EligibleBuilds(children))

\* C23: the candidates come from the first non-empty of the children
\* embedded in the listing, the children of the detail fetch and the scan
\* by parent_id: no detail fetch is issued for a release whose listing
\* entry embeds a child, and when the detail fetch returns a child the
\* builds selected are children of the detail fetch alone.
C23_FirstNonEmptySource ==
    /\ [](pc = "get_milestone" => Len(release_ms.milestones) = 0)
    /\ [][\A details \in MilestoneDetails :
            (DetailAnswers(details) /\ Len(DetailChildren(details)) > 0 /\ pc' # "idle")
            => SelectedFrom(DetailChildren(details))]_vars

\* What holds with "non-empty" read after the filter on the parsable date:
\* the detail fetch is issued only when no embedded child carries a date,
\* the builds of a detail fetch with a dated child are its dated children
\* alone, and otherwise the builds are the dated ones of the scan alone.
FirstSourceWithDatedChild ==
    /\ [](pc = "get_milestone" => EligibleBuilds(release_ms.milestones) = <<>>)
    /\ [][\A details \in MilestoneDetails :
            (DetailAnswers(details) /\ pc' # "idle")
            => IF EligibleBuilds(DetailChildren(details)) # <<>>
               THEN SelectedFrom(DetailChildren(details))
               ELSE SelectedFrom(ChildrenByParent(milestones, release_ms))]_vars

\* The count of a label in the sections of a bucket of a record.
LabelCount(bd, p, d, l) == SectionCount(BucketOf(bd.platforms, p, d).sections, l)

AllLabels(bd) ==
    UNION { DOMAIN BucketOf(bd.platforms, p, d).sections :
            p \in DOMAIN bd.platforms, d \in {"single", "stack"} }

\* The step adds add[l] to each label l of `add` in the sections of the
\* current run's bucket and changes no other section count of the record.
SectionsGain(add) ==
    \A p \in DOMAIN build_data.platforms \cup DOMAIN build_data'.platforms \cup {run.platform},
       d \in {"single", "stack"},
       l \in AllLabels(build_data) \cup AllLabels(build_data') \cup DOMAIN add :
        LabelCount(build_data', p, d, l) =
            LabelCount(build_data, p, d, l)
            + (IF p = run.platform /\ d = run.device_type /\ l \in DOMAIN add
               THEN add[l] ELSE 0)

NoGain == [l \in {} |-> 0]

Whole(label, n) == [l \in {label} |-> n]

\* The failed and errored records of a result list.
Failures(results) == {i \in 1..Len(results) : results[i].status_id \in {5, 6}}

\* The section names the failure r resolves to through the run's
\* test -> case and case -> section-id tables and the fetched sections.
ChainNames(r, sections) ==
    { sections[k].name : k \in
        { k \in 1..Len(sections) :
            /\ sections[k].name # <<>>
            /\ r.test_id \in DOMAIN run.test_to_case
            /\ run.test_to_case[r.test_id] \in DOMAIN run.case_to_section_id
            /\ run.case_to_section_id[run.test_to_case[r.test_id]] = sections[k].id } }

\* One for each failure that resolves to the section name.
ResolvedGain(results, sections) ==
    [nm \in UNION { ChainNames(results[i], sections) : i \in Failures(results) } |->
        Cardinality({i \in Failures(results) : nm \in ChainNames(results[i], sections)})]

MappingPcs == {"get_tests", "get_cases", "get_sections"}

\* A request of the detail tier's mapping has just been answered, or has
\* just raised.
MappingAnswered(op) ==
    pc = op /\ LoggedOne /\ LastLogged.op = op /\ ~LastLogged.raised

MappingRaised == pc \in MappingPcs /\ LoggedOne /\ LastLogged.raised

\* C29: in the detail tier sections are attributed only for a classified
\* run with recomputed failed + error F > 0. With section fetching off F
\* goes to 'Section details not fetched'; with it on and no suite id, to
\* 'No Suite ID'; otherwise the tests, cases and sections are fetched, each
\* failure whose test -> case -> section-id -> name chain resolves adds 1
\* to that name, F goes to 'Failed to map sections' when none resolves, and
\* to 'Mapping Error: <reason>' when a lookup raises. No other section
\* count changes.
C29_DetailSections ==
    /\ [][(ResultsAnswerStep /\ LastLogged.returned > 0) =>
            \E results \in ResultLists :
               /\ Len(results) = LastLogged.returned
               /\ LET F == Cardinality(Failures(results)) IN
                  IF F = 0 \/ run.platform = UnknownPlatform
                     \/ run.device_type \notin {"single", "stack"}
                  THEN SectionsGain(NoGain) /\ pc' \notin MappingPcs
                  ELSE IF ~inputs.fetch_sections
                  THEN SectionsGain(Whole(L_NotFetched, F)) /\ pc' \notin MappingPcs
                  ELSE IF run.suite_id = 0
                  THEN SectionsGain(Whole(L_NoSuiteID, F)) /\ pc' \notin MappingPcs
                  ELSE /\ SectionsGain(NoGain)
                       /\ pc' = "get_tests"
                       /\ run'.results = results]_vars
    /\ [][(MappingAnswered("get_tests") \/ MappingAnswered("get_cases"))
          => SectionsGain(NoGain) /\ pc' \in MappingPcs]_vars
    /\ [][MappingAnswered("get_sections") =>
            \E sections \in SectionLists :
               LET gain == ResolvedGain(run.results, sections) IN
               IF DOMAIN gain # {} THEN SectionsGain(gain)
               ELSE SectionsGain(Whole(L_FailedToMap, Cardinality(Failures(run.results))))]_vars
    /\ [][MappingRaised =>
            SectionsGain(Whole(L_MappingError \o ErrText,
                               Cardinality(Failures(run.results))))]_vars
    /\ [](pc \in MappingPcs =>
            /\ inputs.fetch_sections
            /\ run.suite_id # 0
            /\ Cardinality(Failures(run.results)) > 0
            /\ run.platform # UnknownPlatform
            /\ run.device_type \in {"single", "stack"})

\* Of the three failures of a run two resolved, to the sections A and B,
\* and one did not: A and B have one failure each and no sentinel label is
\* there.
C29_Witness ==
    /\ pc = "persist"
    /\ \E i \in Positions : log[i].op = "get_cases"
    /\ \E p \in DOMAIN build_data.platforms, d \in {"single", "stack"} :
          /\ BucketOf(build_data.platforms, p, d).failed + BucketOf(build_data.platforms, p, d).error = 3
          /\ BucketOf(build_data.platforms, p, d).sections =
                [l \in {<<"A">>, <<"B">>} |-> 1]

(***************************************************************************)
(* Build selection alone: the children of a release, then the filter on   *)
(* the parsed date, the sort and the [:5] of ResolveBuilds.                *)
(***************************************************************************)
MaxChildren == 7

N_D == <<"b", "_", "2", "0", "2", "5", "0", "6", "0", "3", "_", "1", "2", "0", "0", "0", "0">>

ChildNames == {N_A, N_D, N_X}

\* Children with the given names, numbered in list order.
ChildrenNamed(names) == [i \in 1..Len(names) |-> Child(i, names[i], 1)]

InitBuilds ==
    /\ CsvIdle
    /\ PgIdle
    /\ HIdle
    /\ FnIdle
    /\ rbPc = "children"
    /\ \E n \in 0..MaxChildren : \E names \in [1..n -> ChildNames] :
          rbChildren = ChildrenNamed(names)
    /\ rbSelected = <<>>

ResolveBuilds ==
    /\ rbPc = "children"
    /\ rbSelected' = SortAndRetain(EligibleBuilds(rbChildren))
    /\ rbPc' = "selected"
    /\ UNCHANGED <<rbChildren, csvVars, pgVars, hVars, fnVars>>

NextBuilds == ResolveBuilds

SpecBuilds == InitBuilds /\ [][NextBuilds]_vars

\* The children that carry a parsable date.
EligibleIds == {i \in 1..Len(rbChildren) : parse_build_date(rbChildren[i].name) # NoDate}

SelectedIds == {rbSelected[i].id : i \in 1..Len(rbSelected)}

ChildKey(i) == DateKey(parse_build_date(rbChildren[i].name))

\* C6: the selected builds are min(5, n) of the n children with a
\* parsable date, each selected once and with its parsed date, in
\* descending date order, and no eligible child left out is dated strictly
\* later than a selected one.
C6_LatestFive ==
    rbPc = "selected" =>
        /\ Len(rbSelected) = Min(5, Cardinality(EligibleIds))
        /\ SelectedIds \subseteq EligibleIds
        /\ Cardinality(SelectedIds) = Len(rbSelected)
        /\ \A i \in 1..Len(rbSelected) :
              /\ rbSelected[i].name = rbChildren[rbSelected[i].id].name
              /\ rbSelected[i].build_date = parse_build_date(rbSelected[i].name)
              /\ rbSelected[i].build_date # NoDate
        /\ \A i \in 1..(Len(rbSelected) - 1) :
              DateKey(rbSelected[i].build_date) >= DateKey(rbSelected[i + 1].build_date)
        /\ \A e \in EligibleIds \ SelectedIds : \A k \in SelectedIds :
              ChildKey(e) <= ChildKey(k)

\* More than five eligible children of two dates, an undated one among
\* the children, and a child left out that is dated earlier than a
\* selected one.
C6_Witness ==
    /\ rbPc = "selected"
    /\ Cardinality(EligibleIds) > 5
    /\ Cardinality(EligibleIds) < Len(rbChildren)
    /\ Len(rbSelected) = 5
    /\ \E e \in EligibleIds \ SelectedIds : \E k \in SelectedIds : ChildKey(e) < ChildKey(k)


(***************************************************************************)
(* Cache round trip: a record is saved, then the file is loaded.           *)
(***************************************************************************)
\* Largest section count of the records tried.
MaxCsvCount == 2

P_C9300 == <<"C", "9", "3", "0", "0">>
P_MS130 == <<"M", "S", "1", "3", "0">>

CsvNames == { <<"T", "-", "1">>, <<"c", "s", ",", " ", "\"", "1">> }

CsvDate == <<"2", "0", "2", "5", "-", "0", "6", "-", "0", "2">>

\* Section labels: plain, with the delimiter, with a quote and a line
\* feed, and with a carriage return.
CsvLabels == { <<"a">>, <<"x", ",", "\"", LF>>, <<"a", CR, "b">> }

CsvSectionMaps == UNION { [D -> 0..MaxCsvCount] : D \in SUBSET CsvLabels }

CsvOveralls ==
    { [passed |-> a, failed |-> b, error |-> a + 1, blocked |-> b + 2,
       retest |-> a + 3, skipped |-> b + 100] : a \in {0, 12}, b \in {0, 7} }

CsvSingleBuckets ==
    { [passed |-> c[1], failed |-> c[2], error |-> c[3], sections |-> m] :
        c \in { <<0, 0, 0>>, <<3, 1, 12>> }, m \in CsvSectionMaps }

CsvStackBuckets ==
    { ZeroBucket,
      [passed |-> 10, failed |-> 2, error |-> 0, sections |-> [l \in {<<"a">>} |-> 2]] }

CsvPlatformMaps ==
    {NoPlatforms}
    \cup { [p \in {P_C9300} |-> [single |-> b, stack |-> c]] :
             b \in CsvSingleBuckets, c \in CsvStackBuckets }
    \cup { [p \in {P_C9300, P_MS130} |->
               IF p = P_C9300 THEN [single |-> b, stack |-> c]
               ELSE [single |-> c, stack |-> ZeroBucket]] :
             b \in CsvSingleBuckets, c \in CsvStackBuckets }

CsvRecords ==
    { [name |-> n, date |-> CsvDate, overall |-> o, platforms |-> pm] :
        n \in CsvNames, o \in CsvOveralls, pm \in CsvPlatformMaps }

InitCsv ==
    /\ csvPc = "start"
    /\ csvRecord \in CsvRecords
    /\ csvFile = <<>>
    /\ csvLoaded = <<>>
    /\ PgIdle
    /\ HIdle
    /\ RbIdle
    /\ FnIdle

CsvSave ==
    /\ csvPc = "start"
    /\ csvFile' = save_build_data_to_csv(csvRecord)
    /\ csvPc' = "saved"
    /\ UNCHANGED <<csvRecord, csvLoaded, pgVars, hVars, rbVars, fnVars>>

\* The rows of the PLATFORMS block as the writer gives them: the header
\* and the data rows are the only rows of five columns.
FiveColumnRows(file) == {i \in 1..Len(file) : Len(file[i]) = 5}

\* The file as it is when some of those rows come from the version that
\* wrote no error column: platform, device_type, passed, failed.
CsvLegacy ==
    /\ csvPc = "saved"
    /\ \E old \in SUBSET FiveColumnRows(csvFile) :
          /\ old # {}
          /\ csvFile' = [i \in 1..Len(csvFile) |->
                            IF i \in old THEN SubSeq(csvFile[i], 1, 4) ELSE csvFile[i]]
    /\ csvPc' = "legacy"
    /\ UNCHANGED <<csvRecord, csvLoaded, pgVars, hVars, rbVars, fnVars>>

\* The file is loaded: the one just written ("loaded") or the one with
\* rows of the old width ("loaded_legacy").
CsvLoad ==
    /\ csvPc \in {"saved", "legacy"}
    /\ csvLoaded' = load_build_data_from_csv(csvFile)
    /\ csvPc' = IF csvPc = "saved" THEN "loaded" ELSE "loaded_legacy"
    /\ UNCHANGED <<csvRecord, csvFile, pgVars, hVars, rbVars, fnVars>>

NextCsv == CsvSave \/ CsvLegacy \/ CsvLoad

SpecCsv == InitCsv /\ [][NextCsv]_vars

\* Two records agree on name, date, the six overall counts and, per
\* platform and device type, on passed/failed/error and on the count of
\* every section label (a label that is no key counts 0).
SameBuildRecord(a, b) ==
    /\ a.name = b.name
    /\ a.date = b.date
    /\ a.overall = b.overall
    /\ DOMAIN a.platforms = DOMAIN b.platforms
    /\ \A p \in DOMAIN a.platforms : \A i \in 1..2 :
         LET x == a.platforms[p][DeviceTypes[i]]
             y == b.platforms[p][DeviceTypes[i]]
         IN  /\ x.passed = y.passed
             /\ x.failed = y.failed
             /\ x.error = y.error
             /\ \A l \in (DOMAIN x.sections) \cup (DOMAIN y.sections) :
                  SectionCount(x.sections, l) = SectionCount(y.sections, l)

HasCR(sv) == \E i \in 1..Len(sv) : sv[i] = CR

RecordHasCR(r) ==
    \/ HasCR(r.name)
    \/ \E p \in DOMAIN r.platforms : \E i \in 1..2 :
         \E l \in DOMAIN r.platforms[p][DeviceTypes[i]].sections :
            /\ r.platforms[p][DeviceTypes[i]].sections[l] > 0
            /\ HasCR(l)

\* C1: loading the file written for a record gives the record back: same
\* name, date, overall counts, per-bucket counts and section counts, for
\* arbitrary section labels.
C1_RoundTrip ==
    csvPc = "loaded" =>
        /\ ~csvLoaded.raised
        /\ SameBuildRecord(csvLoaded, csvRecord)

\* The round trip does hold for every record none of whose written
\* strings holds a carriage return.
RoundTripWithoutCR ==
    (csvPc = "loaded" /\ ~RecordHasCR(csvRecord)) =>
        /\ ~csvLoaded.raised
        /\ csvLoaded.keys = {"name", "date"}
        /\ SameBuildRecord(csvLoaded, csvRecord)

\* The data rows of the PLATFORMS block of a file: after its header row,
\* before the SECTIONS block.
PlatformDataRows(file) ==
    LET first == (CHOOSE i \in 1..Len(file) : file[i] = <<K_PLATFORMS>>) + 2
        last == (CHOOSE i \in 1..Len(file) : file[i] = <<K_SECTIONS>>) - 1
    IN  {i \in first..last : Len(file[i]) > 0}

\* C18: of a PLATFORMS row with four columns passed and failed are taken
\* and error is 0; of a row with five columns passed, failed and error
\* are taken; a file with rows of both widths loads without an error.
C18_LegacyRows ==
    csvPc = "loaded_legacy" =>
        /\ ~csvLoaded.raised
        /\ \A i \in PlatformDataRows(csvFile) :
              LET row == csvFile[i]
                  b == BucketOf(csvLoaded.platforms, row[1], DeviceOfField(row[2]))
              IN  /\ b.passed = DigitsValue(row[3])
                  /\ b.failed = DigitsValue(row[4])
                  /\ Len(row) = 4 => b.error = 0
                  /\ Len(row) = 5 => b.error = DigitsValue(row[5])

\* A loaded file with a row of each width, the record of the narrow row
\* having had errors.
C18_Witness ==
    /\ csvPc = "loaded_legacy"
    /\ \E i \in PlatformDataRows(csvFile) : \E j \in PlatformDataRows(csvFile) :
          /\ Len(csvFile[i]) = 4
          /\ csvRecord.platforms[csvFile[i][1]][DeviceOfField(csvFile[i][2])].error > 0
          /\ csvLoaded.platforms[csvFile[i][1]][DeviceOfField(csvFile[i][2])].passed > 0
          /\ Len(csvFile[j]) = 5
          /\ csvLoaded.platforms[csvFile[j][1]][DeviceOfField(csvFile[j][2])].passed > 0

(***************************************************************************)
(* A paginated fetch against a server holding a finite listing.            *)
(***************************************************************************)
\* The small servers hold 0, 50, ..., 50 * MaxTotalUnits items.
MaxTotalUnits == 13

PgKinds == {"milestones", "plans", "results"}

\* Servers around the 10,000-item ceiling.
LargeTotals == {10000, 10250, 10400}

PgServers ==
    { [total |-> 50 * k, page |-> sz] : k \in 0..MaxTotalUnits, sz \in {100, 250} }
    \cup { [total |-> n, page |-> 250] : n \in LargeTotals }

\* The page the server serves at `offset`: at most `limit` items and at
\* most its own page size.
ServerPage(server, offset, limit) ==
    LET n == IF server.total < 0 THEN Min(limit, server.page)
             ELSE Min(Min(limit, server.page), server.total - offset) IN
    IF n <= 0 THEN <<>> ELSE [i \in 1..n |-> offset + i]

\* Servers that serve a full page at every offset (total below 0: no end).
EndlessServers == { [total |-> -1, page |-> 250] }

\* The requests of one fetch the model follows.
MaxRequests == 45

InitPg ==
    /\ pgPc = "loop"
    /\ pgKind \in PgKinds
    /\ pgServer \in PgServers
    /\ pgLoop = LoopStart
    /\ pgRequests = <<>>
    /\ pgPages = <<>>
    /\ pgFault = FALSE
    /\ pgReturn = <<>>
    /\ CsvIdle
    /\ HIdle
    /\ RbIdle
    /\ FnIdle

PgAfter(next) ==
    /\ pgLoop' = next
    /\ pgPc' = IF next.done THEN "done" ELSE "loop"
    /\ pgReturn' = IF next.done THEN next.ret ELSE pgReturn

\* One request answered with the server's page.
PgPage ==
    /\ pgPc = "loop"
    /\ Len(pgRequests) < MaxRequests
    /\ LET page == ServerPage(pgServer, pgLoop.offset, batch_size)
           response == ListResponse(page)
       IN  /\ pgRequests' = Append(pgRequests, pgLoop.offset)
           /\ pgPages' = Append(pgPages, page)
           /\ PgAfter(IF pgKind = "results" THEN ResultsPass(pgLoop, response)
                      ELSE ListingPass(pgLoop, response))
    /\ UNCHANGED <<pgKind, pgServer, pgFault, csvVars, hVars, rbVars, fnVars>>

\* One request answered with `response`, a JSON value that is no list.
PgAnswersNonList(response) ==
    /\ pgPc = "loop"
    /\ Len(pgRequests) < MaxRequests
    /\ PgAfter(IF pgKind = "results" THEN ResultsPass(pgLoop, response)
               ELSE ListingPass(pgLoop, response))
    /\ pgRequests' = Append(pgRequests, pgLoop.offset)
    /\ pgFault' = TRUE
    /\ UNCHANGED <<pgKind, pgServer, pgPages, csvVars, hVars, rbVars, fnVars>>

PgNonList == \E response \in NonListResponses : PgAnswersNonList(response)

\* One request that raises (timeout, connection error, non-200, bad JSON).
PgRaise ==
    /\ pgPc = "loop"
    /\ Len(pgRequests) < MaxRequests
    /\ PgAfter(IF pgKind = "results" THEN ResultsRaise(pgLoop) ELSE ListingRaise(pgLoop))
    /\ pgRequests' = Append(pgRequests, pgLoop.offset)
    /\ pgFault' = TRUE
    /\ UNCHANGED <<pgKind, pgServer, pgPages, csvVars, hVars, rbVars, fnVars>>

NextPg == PgPage \/ PgNonList \/ PgRaise

SpecPg == InitPg /\ [][NextPg]_vars

\* The fetches against a server without end, and against the servers
\* around the ceiling.
InitPgEndless ==
    /\ pgPc = "loop"
    /\ pgKind \in PgKinds
    /\ pgServer \in EndlessServers \cup { [total |-> n, page |-> 250] : n \in LargeTotals }
    /\ pgLoop = LoopStart
    /\ pgRequests = <<>>
    /\ pgPages = <<>>
    /\ pgFault = FALSE
    /\ pgReturn = <<>>
    /\ CsvIdle
    /\ HIdle
    /\ RbIdle
    /\ FnIdle

SpecPgEndless == InitPgEndless /\ [][NextPg]_vars

\* The same with every request eventually answered.
SpecPgEndlessFair == SpecPgEndless /\ WF_vars(NextPg)

\* One request whose result fetch is followed page by page: the handler
\* calls api.get_results_for_run, the loop of the client runs against a
\* server, and the handler goes on with the list the loop returned.  At
\* most one run is counted, so that at most one fetch is made.
PagedServers == { [total |-> 0, page |-> 250], [total |-> 300, page |-> 250] }

\* The record of the server's k-th result: the status ids come in turn.
ResultsOfItems(items) == [i \in 1..Len(items) |-> Result(items[i] % 9, items[i])]

\* results = api.get_results_for_run(run_id): the call.
BeginResults ==
    /\ pc = "get_results"
    /\ pgPc = "idle"
    /\ pgPc' = "loop"
    /\ pgKind' = "results"
    /\ pgServer' \in PagedServers
    /\ pgLoop' = LoopStart
    /\ UNCHANGED <<pgRequests, pgPages, pgFault, pgReturn>>
    /\ UNCHANGED <<csvVars, hVars, rbVars, fnVars>>

\* The call returned: the handler goes on with the returned list.
ResultsReturned ==
    /\ pgPc = "done"
    /\ pgKind = "results"
    /\ GetResultsOf(ResultsOfItems(pgReturn.items))

InitPaged ==
    /\ CsvIdle
    /\ PgIdle
    /\ RbIdle
    /\ FnIdle
    /\ \E files \in InitialDisks : HandlerStart(1, 1, MaxFaults, 0, files)

NextPaged ==
    \/ Click
    \/ GetMilestones
    \/ GetMilestoneDetail
    \/ GetMilestoneDetailFails
    \/ LoadCached
    \/ LoadCachedFails
    \/ GetPlans
    \/ StartBuild
    \/ GetPlan
    \/ GetPlanFails
    \/ GetRun
    \/ GetRunFails
    \/ BeginResults
    \/ PgPage
    \/ PgNonList
    \/ PgRaise
    \/ ResultsReturned
    \/ GetTests
    \/ GetCases
    \/ GetSections
    \/ MappingFails
    \/ EstimateStep
    \/ EstimateFails
    \/ Persist
    \/ PersistFails
    \/ Finish

SpecPaged == InitPaged /\ [][NextPaged]_vars

\* A session whose all-plans listing is followed page by page: the
\* handler calls api.get_plans, the loop of the client runs against a
\* server, and the handler decodes and memoizes what the loop returned.
PlanServers == { [total |-> 0, page |-> 250], [total |-> 300, page |-> 250] }

\* The server's k-th plan: the first belongs to the build 11, the second
\* to the build 13, the first of the second page to the build 12, the
\* others to builds of other releases.
PlanOfItem(k) ==
    Plan(k, CASE k = 1 -> 11 [] k = 2 -> 13 [] k = 251 -> 12 [] OTHER -> 99)

\* What api.get_plans returned, as the handler sees it: the list of the
\* plans, or the response that was no list (an object of the loop is an
\* object without a list field).
PlansResponseOf(ret) ==
    IF ret.type = "list" THEN ListResponse([i \in 1..Len(ret.items) |-> PlanOfItem(ret.items[i])])
    ELSE IF ret.type = "dict" THEN DictResponse({"size"}, <<>>)
    ELSE ret

\* plans_response = api.get_plans(project_id): the call.
BeginPlans ==
    /\ pc = "next_build"
    /\ build_idx <= Len(uncached_builds)
    /\ ~session.has_plans
    /\ pgPc = "idle"
    /\ pgPc' = "loop"
    /\ pgKind' = "plans"
    /\ pgServer' \in PlanServers
    /\ pgLoop' = LoopStart
    /\ UNCHANGED <<pgRequests, pgPages, pgFault, pgReturn>>
    /\ UNCHANGED <<csvVars, hVars, rbVars, fnVars>>

\* The call returned: the handler decodes and memoizes.
PlansReturned ==
    /\ pgPc = "done"
    /\ pgKind = "plans"
    /\ GetPlansOf(PlansResponseOf(pgReturn))

InitPlansPaged ==
    /\ CsvIdle
    /\ PgIdle
    /\ RbIdle
    /\ FnIdle
    /\ HandlerStart(SessionRequests, SessionRuns, MaxFaults, 0, <<>>)

NextPlansPaged ==
    \/ SessionClick
    \/ GetMilestones
    \/ GetMilestoneDetail
    \/ GetMilestoneDetailFails
    \/ LoadCached
    \/ LoadCachedFails
    \/ BeginPlans
    \/ PgPage
    \/ PgNonList
    \/ PgRaise
    \/ PlansReturned
    \/ StartBuild
    \/ GetPlan
    \/ GetPlanFails
    \/ GetRun
    \/ GetRunFails
    \/ GetResults
    \/ Persist
    \/ PersistFails
    \/ Finish

SpecPlansPaged == InitPlansPaged /\ [][NextPlansPaged]_vars

StrictlyIncreasing(sq) == \A i \in 1..Len(sq) : \A j \in 1..Len(sq) : i < j => sq[i] < sq[j]

\* The last page received is empty or short, and no earlier one is.
StoppedAtFirstShortPage ==
    /\ Len(pgPages) > 0
    /\ Len(pgPages[Len(pgPages)]) < 250
    /\ \A i \in 1..(Len(pgPages) - 1) : Len(pgPages[i]) = 250

\* Every page received is full and the list has passed the ceiling with
\* the last one.
StoppedAtCeiling ==
    /\ pgKind = "results"
    /\ \A i \in 1..Len(pgPages) : Len(pgPages[i]) = 250
    /\ Len(pgReturn.items) > ResultsCeiling
    /\ Len(pgReturn.items) - 250 <= ResultsCeiling

PgFaultless == pgPc # "idle" /\ ~pgFault

PgExample == pgServer = [total |-> 600, page |-> 250]

\* C7 as stated: with a faultless server the offsets requested increase
\* strictly, the fetch stops after the first empty or short page and
\* returns the received pages concatenated in order; sizes 250, 250, 100
\* give 600 items in three requests.
C7_StopsAtFirstShortPage ==
    PgFaultless =>
        /\ StrictlyIncreasing(pgRequests)
        /\ pgPc = "done" =>
              /\ StoppedAtFirstShortPage
              /\ pgReturn = ListResponse(FlattenSeq(pgPages))
              /\ PgExample => Len(pgReturn.items) = 600 /\ Len(pgRequests) = 3

\* C7 (amended): as above, except that a fetch of run results also stops,
\* without a short page, after the full page that takes the list past
\* 10,000 items.
C7_Pagination ==
    PgFaultless =>
        /\ StrictlyIncreasing(pgRequests)
        /\ pgPc = "loop" => \A i \in 1..Len(pgPages) : Len(pgPages[i]) = 250
        /\ pgPc = "done" =>
              /\ StoppedAtFirstShortPage \/ StoppedAtCeiling
              /\ pgReturn = ListResponse(FlattenSeq(pgPages))
              /\ PgExample => Len(pgReturn.items) = 600 /\ Len(pgRequests) = 3

\* The three-page example has run to its end.
C7_Witness ==
    /\ PgFaultless
    /\ pgPc = "done"
    /\ PgExample
    /\ [i \in 1..3 |-> Len(pgPages[i])] = <<250, 250, 100>>

\* C20: a fetch of run results never returns more than 10,000 items; no
\* page is requested once 10,000 items have been collected (the offset of
\* a request is the number of items collected before it), and what was
\* collected is returned as a list.
C20_NeverBeyondCeiling ==
    pgKind = "results" =>
        /\ \A i \in 1..Len(pgRequests) : pgRequests[i] < ResultsCeiling
        /\ pgPc = "done" =>
              /\ pgReturn.type = "list"
              /\ Len(pgReturn.items) <= ResultsCeiling

\* What the loop does keep: a fetch of run results ends with a list, no
\* page is requested once more than 10,000 items have been collected, and
\* the list exceeds 10,000 items by one page at most.
ResultsWithinCeilingAndPage ==
    pgKind = "results" =>
        /\ \A i \in 1..Len(pgRequests) : pgRequests[i] <= ResultsCeiling
        /\ pgPc = "done" =>
              /\ pgReturn.type = "list"
              /\ Len(pgReturn.items) <= ResultsCeiling + batch_size

\* C21: every paginated fetch ends, whatever the server does: the
\* 10,000-item cap bounds the requests of each listing, so a fetch that
\* has collected more than 10,000 items has ended and makes no further
\* request.
C21_CapBoundsEveryFetch ==
    Len(pgLoop.items) > ResultsCeiling => pgPc = "done"

\* The cap bounds the fetch of run results.
CapBoundsResults ==
    pgKind = "results" => (Len(pgLoop.items) > ResultsCeiling => pgPc = "done")

\* The fetch of run results ends against every server.
ResultsFetchEnds == <>(pgKind # "results" \/ pgPc = "done")

\* A listing against a server that has an end does not reach the cap.
FiniteListingBelowCap == pgServer.total >= 0 => Len(pgRequests) < MaxRequests

\* C22: when a request of a paginated fetch (milestones, plans or results)
\* is answered with a value that is no list, the fetch ends at once and
\* returns that value itself, on the first page and after earlier pages
\* alike.
C22_NonListReturnedAsIs ==
    [][\A response \in NonListResponses :
          PgAnswersNonList(response) => pgPc' = "done" /\ pgReturn' = response]_vars

\* The listings of milestones and plans do return the value itself.
ListingReturnsNonListAsIs ==
    [][\A response \in NonListResponses :
          (pgKind # "results" /\ PgAnswersNonList(response))
          => pgPc' = "done" /\ pgReturn' = response]_vars

\* The fetch of run results ends at once as well, and returns the list of
\* the pages received before.
ResultsReturnsListSoFar ==
    [][\A response \in NonListResponses :
          (pgKind = "results" /\ PgAnswersNonList(response))
          => pgPc' = "done" /\ pgReturn' = ListResponse(FlattenSeq(pgPages))]_vars

(***************************************************************************)
(* The pure functions, each called once on an argument of a bounded set.   *)
(***************************************************************************)
\* A percentage (n / d) * 100 is kept as the fraction n / d it is computed
\* from; the literal 0 returned for an empty total is 0 / 1.
Fraction(n, d) == [num |-> n, den |-> d]

calculate_status_percentages(passed, failed, error, blocked, retest, skipped) ==
    LET total == passed + failed + error + blocked + retest + skipped IN
    IF total = 0
    THEN <<Fraction(0, 1), Fraction(0, 1), Fraction(0, 1), Fraction(0, 1), Fraction(0, 1)>>
    ELSE <<Fraction(passed, total), Fraction(failed, total), Fraction(error, total),
           Fraction(blocked, total), Fraction(skipped, total)>>

MaxStatusCount == 2

StatusTuples == [1..6 -> 0..MaxStatusCount]

Called(name) == fnPc = "call" /\ fnName = name

Returns(value) ==
    /\ fnPc' = "returned"
    /\ fnResult' = value
    /\ UNCHANGED <<fnName, fnArgs, csvVars, pgVars, hVars, rbVars>>

Returned(name) == fnPc = "returned" /\ fnName = name

CallPercentages ==
    /\ Called("calculate_status_percentages")
    /\ Returns(calculate_status_percentages(fnArgs[1], fnArgs[2], fnArgs[3],
                                            fnArgs[4], fnArgs[5], fnArgs[6]))

\* The two identifiers the format comments of parse_build_date give.
Id_CS ==
    <<"c", "s", "-", "1", "7", "-", "2", "-", "2", "0", "2", "5", "0", "6",
      "0", "2", "2", "3", "4", "9", "-", "G", "9", "b", "9", "2", "0", "b",
      "7", "3", "c", "0", "8", "7", "-", "r", "e", "l", "-", "b", "r", "i",
      "c", "k", "l", "a", "y", "i", "n", "g">>

Id_Aurora ==
    <<"C", "i", "s", "c", "o", "_", "I", "O", "S", "_", "X", "E", "_", "S",
      "o", "f", "t", "w", "a", "r", "e", "_", "B", "L", "D", "_", "V", "1",
      "7", "1", "8", "_", "T", "H", "R", "O", "T", "T", "L", "E", "_", "L",
      "A", "T", "E", "S", "T", "_", "2", "0", "2", "5", "0", "5", "0", "7",
      "_", "0", "1", "0", "7", "5", "4">>

\* Identifiers put together from a prefix, a year, a month, a day, the
\* separators between them and what follows.
IdPrefixes == {<<>>, <<"c", "s", "-", "1", "7", "-", "2", "-">>, <<"2", "0", "2", "5", "-", "0", "6", "-", "0", "2", "-">>}

IdYears == {<<"2", "0", "2", "5">>, <<"2", "0", "2", "4">>, <<"0", "0", "0", "0">>}

IdMonths == {<<"0", "2">>, <<"0", "6">>, <<"1", "3">>}

IdDays == {<<"0", "2">>, <<"2", "9">>, <<"3", "0">>, <<"3", "1">>}

IdSeparators == {<<>>, <<"-">>}

IdTails == {<<>>, <<"2", "3", "4", "9">>, <<"_", "0", "1", "0", "7", "5", "4">>, <<"-", "G", "9", "b">>}

DatedIds ==
    {p \o y \o a \o m \o b \o d \o t :
        p \in IdPrefixes, y \in IdYears, a \in IdSeparators, m \in IdMonths,
        b \in IdSeparators, d \in IdDays, t \in IdTails}

Identifiers == DatedIds \cup {Id_CS, Id_Aurora, N_X, <<>>}

CallParseBuildDate ==
    /\ Called("parse_build_date")
    /\ Returns(<<parse_build_date(fnArgs)>>)

\* The same string parsed a second time.
CallParseBuildDateAgain ==
    /\ Returned("parse_build_date")
    /\ Len(fnResult) = 1
    /\ Returns(Append(fnResult, parse_build_date(fnArgs)))

\* The literals of matches_release_pattern.
F_cs1 == <<"c", "s", "-", "1">>

F_cs17 == <<"c", "s", "-", "1", "7", "-">>

F_switch17 == <<"s", "w", "i", "t", "c", "h", "-", "1", "7">>

F_switch18 == <<"s", "w", "i", "t", "c", "h", "-", "1", "8">>

F_nightly == <<"n", "i", "g", "h", "t", "l", "y">>

F_t == <<"t", "-">>

F_aurora2 == <<"a", "u", "r", "o", "r", "a", "2">>

F_cisco == <<"c", "i", "s", "c", "o", "_", "i", "o", "s", "_", "x", "e", "_", "s", "o", "f", "t", "w", "a", "r", "e">>

F_bld17 == <<"b", "l", "d", "_", "v", "1", "7">>

F_bld16 == <<"b", "l", "d", "_", "v", "1", "6">>

F_trunk == <<"t", "r", "u", "n", "k">>

\* The default rule applied to every release.
matches_by_prefix(milestone_name, release_milestone) ==
    /\ StartsWith(Lower(milestone_name), Lower(release_milestone) \o <<"-">>)
    /\ parse_build_date(milestone_name) # NoDate

matches_release_pattern(milestone_name, release_milestone) ==
    LET ms_lower == Lower(milestone_name)
        release_lower == Lower(release_milestone)
        dated == parse_build_date(milestone_name) # NoDate
    IN  IF release_lower = F_cs1
        THEN StartsWith(ms_lower, F_cs17) /\ dated
        ELSE IF release_lower \in {F_switch17, F_switch18}
        THEN StartsWith(ms_lower, release_lower \o <<"-">>) /\ dated
        ELSE IF release_lower = F_nightly
        THEN StartsWith(ms_lower, F_t) /\ dated
        ELSE IF release_lower = F_aurora2
        THEN /\ Contains(ms_lower, F_cisco)
             /\ (Contains(ms_lower, F_bld17) \/ Contains(ms_lower, F_bld16))
             /\ dated
        ELSE IF release_lower = F_trunk
        THEN dated
        ELSE StartsWith(ms_lower, release_lower \o <<"-">>) /\ dated

\* Release labels: the six of the sidebar, two in another case and one
\* the function has no rule for.
Families ==
    {<<"C", "S", "-", "1">>, <<"s", "w", "i", "t", "c", "h", "-", "1", "7">>, <<"s", "w", "i", "t", "c", "h", "-", "1", "8">>, <<"N", "i", "g", "h", "t", "l", "y">>, <<"A", "u", "r", "o", "r", "a", "2">>, <<"T", "r", "u", "n", "k">>,
     <<"c", "s", "-", "1">>, <<"T", "R", "U", "N", "K">>, <<"s", "w", "i", "t", "c", "h", "-", "1", "9">>}

\* Identifiers for them: a prefix and what follows it.
FamilyPrefixes ==
    {<<>>, <<"c", "s", "-", "1", "7", "-", "2", "-">>, <<"C", "S", "-", "1", "7", "-">>, <<"c", "s", "-", "1", "-">>, <<"s", "w", "i", "t", "c", "h", "-", "1", "7", "-">>, <<"S", "w", "i", "t", "c", "h", "-", "1", "8", "-">>, <<"s", "w", "i", "t", "c", "h", "-", "1", "9", "-">>, <<"T", "-">>,
     <<"C", "i", "s", "c", "o", "_", "I", "O", "S", "_", "X", "E", "_", "S", "o", "f", "t", "w", "a", "r", "e", "_", "B", "L", "D", "_", "V", "1", "7", "1", "8", "_">>,
     <<"C", "i", "s", "c", "o", "_", "I", "O", "S", "_", "X", "E", "_", "S", "o", "f", "t", "w", "a", "r", "e", "_", "B", "L", "D", "_", "V", "1", "5", "1", "8", "_">>,
     <<"B", "L", "D", "_", "V", "1", "6", "1", "2", "_">>}

FamilyTails == {<<"2", "0", "2", "5", "0", "6", "0", "2", "2", "3", "4", "9">>, <<"2", "0", "2", "5", "1", "3", "0", "2", "2", "3", "4", "9">>, <<"n", "e", "x", "t">>, <<"2", "0", "2", "5", "0", "5", "0", "7", "_", "0", "1", "0", "7", "5", "4">>}

FamilyIds == {p \o t : p \in FamilyPrefixes, t \in FamilyTails}

CallMatchesRelease ==
    /\ Called("matches_release_pattern")
    /\ Returns(matches_release_pattern(fnArgs[1], fnArgs[2]))

\* Run names: how the name starts, a keyword or none, and what follows.
RunNameStarts == {<<>>, <<"S", "w", "i", "t", "c", "h", "-", "A", "-">>, <<"s", "w", "i", "t", "c", "h", "-", "b", "-">>, <<"S", "w", "i", "t", "c", "h", "X", "-">>, <<"S", "t", "a", "n", "d", "a", "l", "o", "n", "e", " ">>}

RunNameKeywords == {<<>>, <<"S", "T", "A", "C", "K">>, <<"s", "t", "k">>, <<"S", "t", "a", "c", "k", "e", "d">>, <<"s", "i", "n", "g", "l", "e">>, <<"S", "N", "G", "L">>}

RunNameEnds == {<<>>, <<"-", "T", "e", "s", "t">>, <<" ", "C", "9", "3", "0", "0">>}

RunNames == {a \o k \o e : a \in RunNameStarts, k \in RunNameKeywords, e \in RunNameEnds}

CallCategorizeDevice ==
    /\ Called("categorize_device")
    /\ Returns(categorize_device(fnArgs))

\* Build names of up to MaxNameLen characters, of every class the
\* sanitization tells apart.
MaxNameLen == 3

NameChars == {"a", "Z", "7", "_", "-", ".", " ", "/", "é"}

BuildNames == UNION {[1..n -> NameChars] : n \in 0..MaxNameLen}

CacheRoots == {CacheDir, <<"c", "a", "c", "h", "e", "/">>}

\* The three places that compute the file of a build: the write, the
\* existence check and the cached load.
CallCachePaths ==
    /\ Called("cache_paths")
    /\ Returns([save |-> SavePath(fnArgs[1], fnArgs[2], fnArgs[3]),
                check |-> CheckPath(fnArgs[1], fnArgs[2], fnArgs[3]),
                load |-> CachePath(fnArgs[1], fnArgs[2], fnArgs[3])])

\* Milestone listings of up to MaxListed entries: the id of an entry is
\* its place, its name the release label or a name close to it, and it
\* embeds none, one or two children.
MaxListed == 3

R_CS10 == <<"C", "S", "-", "1", "0">>

R_cs1 == <<"c", "s", "-", "1">>

ListedNames == {R_CS1, R_CS10, R_cs1}

EmbeddedLists == {<<>>, <<BA>>, <<BB, BA>>}

Listings ==
    UNION { { [i \in 1..n |-> Listed(i, nm[i], 0, ch[i])] :
                nm \in [1..n -> ListedNames], ch \in [1..n -> EmbeddedLists] } :
            n \in 0..MaxListed }

\* ResolveRelease: the release milestone picked from the listing.
ResolveRelease(listing, release_milestone) ==
    LET matching == MatchingMilestones(listing, release_milestone) IN
    IF Len(matching) = 0 THEN NoRelease ELSE PickRelease(matching)

CallResolveRelease ==
    /\ Called("resolve_release")
    /\ Returns(ResolveRelease(fnArgs[1], fnArgs[2]))

\* Result lists of up to MaxResults records with status codes 0 (none)
\* to 8.
MaxResults == 3

StatusCodes == 0..8

ResultRecords ==
    UNION { { [i \in 1..n |-> Result(st[i], i)] : st \in [1..n -> StatusCodes] } :
            n \in 0..MaxResults }

\* "Process actual results": build_data_temp of a result list.
CallCountResults ==
    /\ Called("count_results")
    /\ Returns(TempCounts(fnArgs))

\* Section lists of up to MaxSections named sections, with or without an
\* unnamed one at their head, and failure counts of up to MaxFailures.
MaxSections == 7

MaxFailures == 8

SectionLetters == <<"A", "B", "C", "D", "E", "F", "G", "H">>

NamedSections(n) == [i \in 1..n |-> [id |-> i, name |-> <<SectionLetters[i]>>]]

SuiteSections ==
    { NamedSections(n) : n \in 0..MaxSections }
    \cup { <<[id |-> 9, name |-> <<>>]>> \o NamedSections(n) : n \in 0..MaxSections }

\* The summary tier's estimate for a classified run: the sections of its
\* bucket, which was empty.
CallEstimateSections ==
    /\ Called("estimate_sections")
    /\ Returns(BucketOf(EstimateSections(NoBuildData, extract_platform(RunSingle), "single",
                                         fnArgs[1], fnArgs[2]).platforms,
                        extract_platform(RunSingle), "single").sections)

\* Run names for the platform: what precedes the code, a code or a
\* pattern (listed, shadowed, separated, lower case, too short) and what
\* follows it.
PlatformStarts ==
    {<<>>, <<"R", "u", "n", " ">>, <<"C", "9", "5", "0", "0", "-">>,
     <<"C", "1", "2", "3", "4", " ">>, <<"x">>}

PlatformMiddles ==
    {<<>>, <<"M", "S", "3", "9", "0">>, <<"m", "s", "4", "2", "5">>,
     <<"C", "9", "3", "0", "0", "L">>, <<"c", "9", "3", "0", "0", "x">>,
     <<"C", "9", "2", "0", "0", "L">>, <<"c", "9", "2", "0", "0", "c", "x">>,
     <<"M", "S", "-", "1", "3", "0">>, <<"m", "s", " ", "1", "7">>, <<"M", "S", "\t", "7">>,
     <<"M", "S", "-", "x">>, <<"c", "7", "7", "0", "0", "a", "B">>,
     <<"C", "7", "7", "0", "0", "5">>, <<"C", "1", "2", "3">>, <<"S", "w", "i", "t", "c", "h">>}

PlatformEnds ==
    {<<>>, <<" ", "s", "t", "a", "c", "k">>, <<"-", "C", "3", "8", "5", "0">>,
     <<" ", "M", "S", "1", "2", "0">>, <<"9">>}

PlatformNames ==
    {a \o m \o e : a \in PlatformStarts, m \in PlatformMiddles, e \in PlatformEnds}

CallExtractPlatform ==
    /\ Called("extract_platform")
    /\ Returns(extract_platform(fnArgs))

\* Listing responses: a bare array, something that is neither an array
\* nor an object, and objects with any of six keys.  Each key of an
\* object that is bound to a list is bound to a list of its own; result
\* and data may be bound to something else.
ListFields == {"milestones", "plans", "result", "data"}

ObjectKeys == ListFields \cup {"size", "error"}

FieldList(k) == <<[field |-> k]>>

ListingObjects ==
    { DictResponse(keys, [k \in lists |-> FieldList(k)]) :
        keys \in SUBSET ObjectKeys, lists \in SUBSET ListFields }

ListingResponses ==
    { r \in ListingObjects :
        /\ DOMAIN r.value \subseteq r.keys
        /\ r.keys \cap {"milestones", "plans"} \subseteq DOMAIN r.value }
    \cup {ListResponse(<<>>), ListResponse(FieldList("bare")), [type |-> "other"]}

\* The two places that decode a listing response.  The plans decoding
\* takes the value of its field as it is.
DecodeListing(resource, response) ==
    IF resource = "milestones" THEN DecodeMilestones(response)
    ELSE [raised |-> FALSE, list |-> DecodePlans(response)]

CallDecodeListing ==
    /\ Called("decode_listing")
    /\ Returns(DecodeListing(fnArgs[1], fnArgs[2]))

FnCalls ==
    [name : {"calculate_status_percentages"}, args : StatusTuples]
    \cup [name : {"parse_build_date"}, args : Identifiers]
    \cup [name : {"matches_release_pattern"}, args : FamilyIds \X Families]
    \cup [name : {"categorize_device"}, args : RunNames]
    \cup [name : {"cache_paths"}, args : CacheRoots \X Releases \X BuildNames]
    \cup [name : {"resolve_release"}, args : Listings \X Releases]
    \cup [name : {"count_results"}, args : ResultRecords]
    \cup [name : {"estimate_sections"}, args : SuiteSections \X (1..MaxFailures)]
    \cup [name : {"extract_platform"}, args : PlatformNames]
    \cup [name : {"decode_listing"},
           args : ({"milestones"} \X ListingResponses)
                  \cup ({"plans"} \X {r \in ListingResponses :
                                         r.type = "dict" => r.keys \cap ListFields = DOMAIN r.value})]

InitFn ==
    /\ CsvIdle
    /\ PgIdle
    /\ HIdle
    /\ RbIdle
    /\ fnPc = "call"
    /\ \E call \in FnCalls : fnName = call.name /\ fnArgs = call.args
    /\ fnResult = <<>>

NextFn ==
    \/ CallPercentages
    \/ CallParseBuildDate
    \/ CallParseBuildDateAgain
    \/ CallMatchesRelease
    \/ CallCategorizeDevice
    \/ CallCachePaths
    \/ CallResolveRelease
    \/ CallCountResults
    \/ CallEstimateSections
    \/ CallExtractPlatform
    \/ CallDecodeListing

SpecFn == InitFn /\ [][NextFn]_vars

RECURSIVE SumNum(_)
SumNum(fractions) ==
    IF Len(fractions) = 0 THEN 0 ELSE Head(fractions).num + SumNum(Tail(fractions))

\* The percentages add up to 100 and each is between 0 and 100.
AddUpToHundred(fractions) ==
    /\ \A i \in 1..Len(fractions) :
          /\ fractions[i].den = fractions[1].den
          /\ fractions[i].num >= 0
          /\ fractions[i].num <= fractions[i].den
    /\ SumNum(fractions) = fractions[1].den

\* C12: for every tuple of six non-negative counts the percentages returned
\* by calculate_status_percentages add up to 100 and each lies in [0, 100].
C12_PercentagesSumTo100 ==
    Returned("calculate_status_percentages") => AddUpToHundred(fnResult)

\* They do add up when no test is to be retested and there is a test at
\* all, and each lies in [0, 100] whatever the counts.
PercentagesWithoutRetest ==
    Returned("calculate_status_percentages") =>
        /\ \A i \in 1..5 : fnResult[i].num >= 0 /\ fnResult[i].num <= fnResult[i].den
        /\ (fnArgs[5] = 0 /\ SumNum([i \in 1..6 |-> Fraction(fnArgs[i], 1)]) > 0) =>
              AddUpToHundred(fnResult)

IsDate(date) == ValidDate(date.year, date.month, date.day)

C14_PatternOrder ==
    Returned("parse_build_date") =>
        LET c1 == Candidate1(fnArgs)
            c2 == Candidate2(fnArgs)
            c3 == Candidate3(fnArgs)
        IN  /\ IsDate(c1) => fnResult[1] = c1
            /\ (~IsDate(c1) /\ IsDate(c2)) => fnResult[1] = c2
            /\ (~IsDate(c1) /\ ~IsDate(c2) /\ IsDate(c3)) => fnResult[1] = c3
            /\ fnResult[1] = NoDate <=> (~IsDate(c1) /\ ~IsDate(c2) /\ ~IsDate(c3))
            /\ fnArgs = Id_CS => fnResult[1] = [year |-> 2025, month |-> 6, day |-> 2]
            /\ fnArgs = Id_Aurora => fnResult[1] = [year |-> 2025, month |-> 5, day |-> 7]

\* The compact pattern matched digits that are no date and a later pattern
\* gave the date.
C14_Witness ==
    /\ Returned("parse_build_date")
    /\ FirstMatch(fnArgs, Pattern1At) # 0
    /\ Candidate1(fnArgs) = NoDate
    /\ IsDate(fnResult[1])

\* The rule of a release label as the table of the specification gives it.
RuleOf(identifier, family) ==
    LET id == Lower(identifier)
        fam == Lower(family)
    IN  IF fam = F_cs1 THEN StartsWith(id, F_cs17)
        ELSE IF fam = F_nightly THEN StartsWith(id, F_t)
        ELSE IF fam = F_aurora2
        THEN Contains(id, F_cisco) /\ (Contains(id, F_bld17) \/ Contains(id, F_bld16))
        ELSE IF fam = F_trunk THEN TRUE
        ELSE StartsWith(id, fam \o <<"-">>)

HasParsableDate(identifier) ==
    \/ IsDate(Candidate1(identifier))
    \/ IsDate(Candidate2(identifier))
    \/ IsDate(Candidate3(identifier))

\* C15: matches_release_pattern is true exactly for an identifier with a
\* parsable date that satisfies the rule of the release label, compared
\* without regard to case: cs-17- for CS-1, <label>- for switch-17 and
\* switch-18, t- for Nightly, the two substrings for Aurora2, nothing more
\* for Trunk, <label>- for any other label.  A cs-17-2-202506022349
\* identifier matches CS-1; a switch-19-202506022349 one does not match
\* switch-18.
C15_MatchesRelease ==
    Returned("matches_release_pattern") =>
        /\ fnResult \in BOOLEAN
        /\ fnResult <=> (HasParsableDate(fnArgs[1]) /\ RuleOf(fnArgs[1], fnArgs[2]))
        /\ (StartsWith(fnArgs[1], F_cs17 \o <<"2", "-", "2", "0", "2", "5", "0", "6">>)
            /\ fnArgs[2] = <<"C", "S", "-", "1">>) => fnResult
        /\ (StartsWith(fnArgs[1], <<"s", "w", "i", "t", "c", "h", "-", "1", "9", "-">>)
            /\ fnArgs[2] = F_switch18) => ~fnResult

\* A dated cs-17- identifier matched against CS-1, whose own label is not
\* its prefix.
C15_Witness ==
    /\ Returned("matches_release_pattern")
    /\ fnArgs[2] = <<"C", "S", "-", "1">>
    /\ StartsWith(fnArgs[1], F_cs17)
    /\ ~StartsWith(Lower(fnArgs[1]), F_cs1 \o <<"-">>)
    /\ fnResult = TRUE

HasKeyword(run_name, keywords) == \E k \in keywords : Contains(Upper(run_name), k)

StackKeywords == {<<"S", "T", "A", "C", "K">>, <<"S", "T", "K">>, <<"S", "T", "A", "C", "K", "E", "D">>}

SingleKeywords == {<<"S", "I", "N", "G", "L", "E">>, <<"S", "N", "G", "L">>, <<"S", "T", "A", "N", "D", "A", "L", "O", "N", "E">>, <<"S", "W", "I", "T", "C", "H", "-">>}

Name_SwitchAStackTest == <<"S", "w", "i", "t", "c", "h", "-", "A", "-", "S", "T", "A", "C", "K", "-", "T", "e", "s", "t">>

\* C16: 'stack' when a stack keyword is in the name; else 'single' when a
\* single keyword is in it or it starts with Switch-<letter>-; else
\* 'unknown'.  A name with keywords of both kinds is 'stack', as is
\* Switch-A-STACK-Test.
C16_StackBeforeSingle ==
    Returned("categorize_device") =>
        /\ HasKeyword(fnArgs, StackKeywords) => fnResult = "stack"
        /\ (~HasKeyword(fnArgs, StackKeywords)
            /\ (HasKeyword(fnArgs, SingleKeywords) \/ SwitchLetterPrefix(fnArgs))) =>
              fnResult = "single"
        /\ (~HasKeyword(fnArgs, StackKeywords) /\ ~HasKeyword(fnArgs, SingleKeywords)
            /\ ~SwitchLetterPrefix(fnArgs)) => fnResult = "unknown"
        /\ fnArgs = Name_SwitchAStackTest => fnResult = "stack"

\* Switch-A-STACK-Test, which holds SWITCH- and STACK, classified.
C16_Witness ==
    /\ Returned("categorize_device")
    /\ fnArgs = Name_SwitchAStackTest
    /\ HasKeyword(fnArgs, StackKeywords) /\ HasKeyword(fnArgs, SingleKeywords)
    /\ fnResult = "stack"

\* A character of [A-Za-z0-9_-].
IsPlainChar(c) == c \in {"a", "Z", "7", "_", "-"}

\* The name with every character outside [A-Za-z0-9_-] replaced by '_'.
Sanitized(nm) == [i \in 1..Len(nm) |-> IF IsPlainChar(nm[i]) THEN nm[i] ELSE "_"]

\* <cache_root>/<release_family>/<file>
UnderRoot(root, family, file) ==
    (IF root[Len(root)] = "/" THEN root ELSE root \o <<"/">>) \o family \o <<"/">> \o file

\* The write, the existence check and the cached load agree on the file.
PathsAgree ==
    Returned("cache_paths") =>
        fnResult.save = fnResult.check /\ fnResult.check = fnResult.load

\* C17: the file of a build is <cache_root>/<release_family>/<name>.csv
\* with every character of the name outside [A-Za-z0-9_-] replaced by '_'
\* and every other one kept, and the write, the existence check and the
\* cached load compute the same path.
C17_CachePath ==
    Returned("cache_paths") =>
        /\ fnResult.save = UnderRoot(fnArgs[1], fnArgs[2], Sanitized(fnArgs[3]) \o DotCsv)
        /\ fnResult.check = fnResult.save
        /\ fnResult.load = fnResult.save

\* Both hold for every name without a letter or digit beyond ASCII.
CachePathOfAsciiName ==
    (Returned("cache_paths") /\ \A i \in 1..Len(fnArgs[3]) : fnArgs[3][i] \notin OtherLetters) =>
        /\ fnResult.save = UnderRoot(fnArgs[1], fnArgs[2], Sanitized(fnArgs[3]) \o DotCsv)
        /\ fnResult.check = fnResult.save
        /\ fnResult.load = fnResult.save

\* The places of the listing whose name is the label.
MatchesOf(listing, label) == {i \in 1..Len(listing) : listing[i].name = label}

\* C24: the release picked is a listed milestone whose name equals the
\* selected label; none is picked exactly when no name equals it; among
\* the matches it is one that embeds the most children, and the first in
\* the listing of those that embed as many.
C24_ResolveRelease ==
    Returned("resolve_release") =>
        LET listing == fnArgs[1]
            matches == MatchesOf(listing, fnArgs[2])
        IN  IF matches = {} THEN fnResult = NoRelease
            ELSE \E i \in matches :
                    /\ fnResult = listing[i]
                    /\ \A j \in matches :
                          /\ Len(listing[j].milestones) <= Len(listing[i].milestones)
                          /\ Len(listing[j].milestones) = Len(listing[i].milestones) => i <= j

\* Three milestones carry the label: the first embeds fewer children than
\* the second and the third, which embed as many; the second is picked.
C24_Witness ==
    /\ Returned("resolve_release")
    /\ Len(fnArgs[1]) = 3
    /\ MatchesOf(fnArgs[1], fnArgs[2]) = {1, 2, 3}
    /\ Len(fnArgs[1][1].milestones) < Len(fnArgs[1][2].milestones)
    /\ Len(fnArgs[1][2].milestones) = Len(fnArgs[1][3].milestones)
    /\ fnResult = fnArgs[1][2]


\* The status codes counted under each of the six counters.
CodesOf ==
    [passed |-> {1}, blocked |-> {2}, skipped |-> {3, 7}, retest |-> {4},
     failed |-> {5}, error |-> {6}]

\* C28: the six counters recomputed from a result list count, each, the
\* records whose status code is its own (1 passed, 2 blocked, 3 and 7
\* skipped, 4 retest, 5 failed, 6 error), so a record with a code in 1..7 is
\* counted under exactly one counter; when every record has a code in 1..7
\* the six counts add up to the number of records.
C28_StatusClassification ==
    Returned("count_results") =>
        LET records == fnArgs
            counts == fnResult
        IN  /\ DOMAIN counts = DOMAIN CodesOf
            /\ \A k \in DOMAIN CodesOf :
                  counts[k] = Cardinality({i \in 1..Len(records) :
                                              records[i].status_id \in CodesOf[k]})
            /\ \A k \in DOMAIN CodesOf, l \in DOMAIN CodesOf :
                  k # l => CodesOf[k] \cap CodesOf[l] = {}
            /\ (\A i \in 1..Len(records) : records[i].status_id \in 1..7)
               => counts.passed + counts.blocked + counts.skipped + counts.retest
                  + counts.failed + counts.error = Len(records)

\* Three records, an untested one, a skip and a failure: two are counted
\* as skipped and one as failed.
C28_Witness ==
    /\ Returned("count_results")
    /\ [i \in 1..Len(fnArgs) |-> fnArgs[i].status_id] = <<3, 7, 5>>
    /\ fnResult.skipped = 2
    /\ fnResult.failed = 1


\* The names of the named sections of a list, in its order.
NamesOf(sections) ==
    LET named == SelectSeq(sections, LAMBDA x : x.name # <<>>) IN
    [i \in 1..Len(named) |-> named[i].name]

\* The estimated count of the i-th named section.
EstimatedOf(names, i) == SectionCount(fnResult, names[i] \o L_Estimated)

RECURSIVE SumEstimated(_, _)
SumEstimated(names, n) ==
    IF n = 0 THEN 0 ELSE EstimatedOf(names, n) + SumEstimated(names, n - 1)

\* The estimate spreads F over the first n named sections: only their
\* labels are there, the counts add up to F, differ by at most 1, and an
\* earlier section has no less than a later one.
SpreadsOver(names, n, F) ==
    /\ DOMAIN fnResult \subseteq {names[i] \o L_Estimated : i \in 1..n}
    /\ SumEstimated(names, n) = F
    /\ \A i \in 1..n, j \in 1..n :
          /\ EstimatedOf(names, i) - EstimatedOf(names, j) <= 1
          /\ i < j => EstimatedOf(names, i) >= EstimatedOf(names, j)

\* C30: for a classified run of the summary tier with F = failed + error
\* > 0 and at least one named section, F is spread over up to 5 sections
\* labelled '<name> (estimated)': the counts add up to F, differ pairwise
\* by at most 1, and the remainder goes to the earliest sections.
C30_EstimateSumsToF ==
    (Returned("estimate_sections") /\ Len(NamesOf(fnArgs[1])) > 0) =>
        SpreadsOver(NamesOf(fnArgs[1]), Min(5, Len(NamesOf(fnArgs[1]))), fnArgs[2])

\* With at most 5 named sections the estimate is as stated; with N > 5 the
\* share is still F div N and the remainder F mod N, but only the first 5
\* sections are given theirs, so that less than F is attributed as soon as
\* F >= N.
EstimateOverFive ==
    (Returned("estimate_sections") /\ Len(NamesOf(fnArgs[1])) > 0) =>
        LET names == NamesOf(fnArgs[1])
            N == Len(names)
            F == fnArgs[2]
        IN  IF N <= 5 THEN SpreadsOver(names, N, F)
            ELSE /\ DOMAIN fnResult \subseteq {names[i] \o L_Estimated : i \in 1..5}
                 /\ \A i \in 1..5 :
                       EstimatedOf(names, i) = (F \div N) + (IF i - 1 < F % N THEN 1 ELSE 0)
                 /\ SumEstimated(names, 5) <= F
                 /\ F >= N => SumEstimated(names, 5) < F

\* Seven failures over three named sections: 3, 2, 2.
EstimateOfSevenOverThree ==
    /\ Returned("estimate_sections")
    /\ Len(NamesOf(fnArgs[1])) = 3
    /\ fnArgs[2] = 7
    /\ [i \in 1..3 |-> EstimatedOf(NamesOf(fnArgs[1]), i)] = <<3, 2, 2>>

\* The places of a run name where a pattern matches.
MatchesAt(run_name, At(_, _)) == {i \in 1..Len(run_name) : At(run_name, i)}

Leftmost(places) == CHOOSE i \in places : \A k \in places : i <= k

\* The digits from place d of the name up to the first character that is
\* not a digit.
DigitsFrom(run_name, d) ==
    LET stop == CHOOSE j \in d..(Len(run_name) + 1) :
                    /\ \A k \in d..(j - 1) : IsDigit(run_name[k])
                    /\ j = Len(run_name) + 1 \/ ~IsDigit(run_name[j])
    IN  SubSeq(run_name, d, stop - 1)

LettersFrom(run_name, d) ==
    LET stop == CHOOSE j \in d..(Len(run_name) + 1) :
                    /\ \A k \in d..(j - 1) : IsLetter(run_name[k])
                    /\ j = Len(run_name) + 1 \/ ~IsLetter(run_name[j])
    IN  SubSeq(run_name, d, stop - 1)

\* C31: extract_platform returns the first code of the list, in list
\* order, that occurs in the upper-cased run name; when no listed code
\* occurs, MS followed by the digits of the leftmost MS pattern; when
\* that pattern does not match either, C followed by the four digits and
\* the letters of the leftmost C pattern; and Unknown when nothing matches.
C31_ExtractPlatform ==
    Returned("extract_platform") =>
        LET run_name == fnArgs
            listed == ListedIn(Upper(run_name))
            ms == MatchesAt(run_name, MSPatternAt)
            c == MatchesAt(run_name, CPatternAt)
        IN  /\ listed # {} =>
                  /\ fnResult \in {KnownPlatforms[i] : i \in listed}
                  /\ \A k \in listed : KnownPlatforms[k] = fnResult =>
                         \A i \in listed : k <= i
            /\ (listed = {} /\ ms # {}) =>
                  LET i == Leftmost(ms)
                      d == IF IsDigit(run_name[i + 2]) THEN i + 2 ELSE i + 3
                  IN  fnResult = <<"M", "S">> \o DigitsFrom(run_name, d)
            /\ (listed = {} /\ ms = {} /\ c # {}) =>
                  LET i == Leftmost(c)
                  IN  fnResult = <<"C">> \o SubSeq(run_name, i + 1, i + 4)
                                        \o LettersFrom(run_name, i + 5)
            /\ (listed = {} /\ ms = {} /\ c = {}) => fnResult = UnknownPlatform

\* 'C1234 ms 17': no listed code, both patterns match and the C pattern
\* matches further left, yet the MS pattern names the platform.
C31_Witness ==
    /\ Returned("extract_platform")
    /\ ListedIn(Upper(fnArgs)) = {}
    /\ MatchesAt(fnArgs, MSPatternAt) # {}
    /\ MatchesAt(fnArgs, CPatternAt) # {}
    /\ Leftmost(MatchesAt(fnArgs, CPatternAt)) < Leftmost(MatchesAt(fnArgs, MSPatternAt))
    /\ fnResult = <<"M", "S", "1", "7">>

\* Each outcome of extract_platform happens: a listed code found under
\* another case, a code made from a separated MS pattern, one made from a
\* C pattern that keeps the case of its letters, and Unknown.
ListedUnderOtherCase ==
    /\ Returned("extract_platform")
    /\ fnArgs = <<"m", "s", "4", "2", "5">>
    /\ fnResult = MSCode("4", "2", "5")

CPatternKeepsCase ==
    /\ Returned("extract_platform")
    /\ fnArgs = <<"c", "7", "7", "0", "0", "a", "B">>
    /\ fnResult = <<"C", "7", "7", "0", "0", "a", "B">>

NothingMatches ==
    /\ Returned("extract_platform")
    /\ fnArgs = <<"R", "u", "n", " ", "M", "S", "-", "x">>
    /\ fnResult = UnknownPlatform

\* The listed codes that hold an earlier listed code: the place of each
\* and the place of the code it holds.
ShadowedPlaces ==
    {i \in 1..Len(KnownPlatforms) :
        \E k \in 1..(i - 1) : Contains(KnownPlatforms[i], KnownPlatforms[k])}

ShorterOf(i) ==
    KnownPlatforms[CHOOSE k \in 1..(i - 1) : Contains(KnownPlatforms[i], KnownPlatforms[k])]

\* C40 as stated: a run name that contains C9300L, C9300X, C9200L or
\* C9200CX is classified as the shorter code it holds (C9300 or C9200),
\* and none of the four is ever returned.
C40_ShadowedGetsShorterCode ==
    Returned("extract_platform") =>
        /\ fnResult \notin {KnownPlatforms[i] : i \in ShadowedPlaces}
        /\ \A i \in ShadowedPlaces :
              Contains(Upper(fnArgs), KnownPlatforms[i]) => fnResult = ShorterOf(i)

\* C40: extract_platform never returns C9300L, C9300X, C9200L or C9200CX;
\* a run name that contains one of them is classified as the first
\* listed code that occurs in it, which is the shorter code (C9300 or
\* C9200) unless a code listed before that one occurs in the name too.
C40_ShadowedNeverReturned ==
    Returned("extract_platform") =>
        /\ fnResult \notin {KnownPlatforms[i] : i \in ShadowedPlaces}
        /\ \A i \in ShadowedPlaces :
              Contains(Upper(fnArgs), KnownPlatforms[i]) =>
                  /\ \E k \in 1..(i - 1) : fnResult = KnownPlatforms[k]
                  /\ (\A k \in 1..(i - 1) :
                         Contains(Upper(fnArgs), KnownPlatforms[k]) =>
                             KnownPlatforms[k] = ShorterOf(i))
                     => fnResult = ShorterOf(i)

\* 'Run c9200cx stack' is classified as C9200.
C40_Witness ==
    /\ Returned("extract_platform")
    /\ Contains(Upper(fnArgs), CCode("9", "2", "0", "0") \o <<"C", "X">>)
    /\ ListedIn(Upper(fnArgs)) \subseteq ShadowedPlaces \cup {20}
    /\ fnResult = CCode("9", "2", "0", "0")

\* The four shadowed codes are C9300L, C9300X, C9200L and C9200CX.
ShadowedAreTheFour ==
    {KnownPlatforms[i] : i \in ShadowedPlaces} =
        {CCode("9", "3", "0", "0") \o <<"L">>, CCode("9", "3", "0", "0") \o <<"X">>,
         CCode("9", "2", "0", "0") \o <<"L">>, CCode("9", "2", "0", "0") \o <<"C", "X">>}

\* 'C9300L MS120' holds C9300L and is classified as MS120.
C40_EarlierCodeTakesTheName ==
    /\ Returned("extract_platform")
    /\ Contains(Upper(fnArgs), CCode("9", "3", "0", "0") \o <<"L">>)
    /\ fnResult = MSCode("1", "2", "0")

\* The fields a listing of a resource is looked for in, in their order.
FieldOrder(resource) == <<resource, "result", "data">>

PresentFields(resource, keys) == {i \in 1..3 : FieldOrder(resource)[i] \in keys}

\* The list of a response is the value of the first field present among
\* the resource's own field, result and data, in this order.
TakenFromFirstPresent(resource, response) ==
    LET order == FieldOrder(resource) IN
    \A i \in PresentFields(resource, response.keys) :
        (\A k \in 1..(i - 1) : order[k] \notin response.keys) =>
            IF order[i] \in DOMAIN response.value
            THEN fnResult = [raised |-> FALSE, list |-> response.value[order[i]]]
            ELSE fnResult.raised

\* C32 as stated: a listing response that is a bare array is used as it
\* is; of every object the list is the value of the first field present
\* among the resource's own field, result and data, in this order.
C32_FirstPresentFieldOfAnyObject ==
    Returned("decode_listing") =>
        /\ fnArgs[2].type = "list" =>
              fnResult = [raised |-> FALSE, list |-> fnArgs[2].items]
        /\ fnArgs[2].type = "dict" => TakenFromFirstPresent(fnArgs[1], fnArgs[2])

\* C32: a listing response that is a bare array is used as it is; of an
\* object the list is the value of the first field present among the
\* resource's own field, result and data, in this order (a later field
\* is used exactly when every earlier one is absent), except that a
\* milestones object with an error key is raised whatever it holds.
C32_FirstPresentField ==
    Returned("decode_listing") =>
        LET resource == fnArgs[1]
            response == fnArgs[2]
        IN  /\ response.type = "list" =>
                  fnResult = [raised |-> FALSE, list |-> response.items]
            /\ response.type = "dict" =>
                  IF resource = "milestones" /\ "error" \in response.keys
                  THEN fnResult = [raised |-> TRUE, list |-> <<>>]
                  ELSE TakenFromFirstPresent(resource, response)

\* An object with result and data and without the own field: the list
\* under result is taken.
C32_Witness ==
    /\ Returned("decode_listing")
    /\ fnArgs[2].type = "dict"
    /\ PresentFields(fnArgs[1], fnArgs[2].keys) = {2, 3}
    /\ {"result", "data"} \subseteq DOMAIN fnArgs[2].value
    /\ fnResult = [raised |-> FALSE, list |-> FieldList("result")]

\* What the claim leaves open.  An object with none of the three fields
\* gives the empty list; for milestones an object with an error key is
\* raised whatever else it holds, and so is a first present field among
\* result and data that holds no list, and a response that is neither an
\* array nor an object; for plans such a response gives the empty list
\* and an error key is not looked at.
DecodingOtherwise ==
    Returned("decode_listing") =>
        LET resource == fnArgs[1]
            response == fnArgs[2]
        IN  /\ (response.type = "dict" /\ PresentFields(resource, response.keys) = {}
                 /\ "error" \notin response.keys) =>
                  fnResult = [raised |-> FALSE, list |-> <<>>]
            /\ (response.type = "dict" /\ "error" \in response.keys) =>
                  IF resource = "milestones" THEN fnResult.raised
                  ELSE fnResult = DecodeListing(resource,
                           [response EXCEPT !.keys = response.keys \ {"error"}])
            /\ response.type = "other" =>
                  IF resource = "milestones" THEN fnResult.raised
                  ELSE fnResult = [raised |-> FALSE, list |-> <<>>]

ErrorObjectWithMilestonesRaised ==
    /\ Returned("decode_listing")
    /\ fnArgs[1] = "milestones"
    /\ fnArgs[2].type = "dict"
    /\ {"error", "milestones"} \subseteq fnArgs[2].keys
    /\ fnResult.raised

\* Where the handler stands while the plans and runs of a build are
\* processed.
InBuildPcs ==
    {"get_plan", "get_run", "get_results", "get_tests", "get_cases", "get_sections",
     "estimate_sections"}

\* The cache file of a selected build.
FileOf(build_ms) == CachePath(inputs.cache_dir, inputs.release_milestone, build_ms.name)

\* C33: once a build has a matching plan, whatever is answered, fails or
\* is skipped while its plans and runs are processed leads to the append
\* and the write, never past them; the append and the write (unless the
\* write itself raises) add the record as it stands, all-zero or partial,
\* to the aggregate and put it into the build's cache file; and in a
\* request with the cache in use a selected build whose file exists at
\* the click is a cached build, no request is sent to the server for it
\* and its file stays as it was.
C33_PartialRecordCached ==
    /\ [][(pc \in InBuildPcs) => (pc' \in (InBuildPcs \cup {"persist"}))]_vars
    /\ [][(pc = "persist" /\ ~RaisedLast("write_cache")) =>
            /\ all_data'.builds = Append(all_data.builds, build_data)
            /\ FileExists(disk', FileOf(CurrentBuild))
            /\ disk'[FileOf(CurrentBuild)] = save_build_data_to_csv(build_data)]_vars
    /\ []((pc \notin {"idle", "get_milestones", "get_milestone"} /\ inputs.use_cache) =>
            \A k \in CachedPlaces :
                /\ \E c \in 1..Len(cached_builds) : cached_builds[c] = build_milestones[k]
                /\ \A i \in Positions :
                      log[i].build = build_milestones[k].id => log[i].op \notin NetworkOps
                /\ FileUntouched(FileOf(build_milestones[k])))

\* The only plan-detail request of a build raised: the all-zero record
\* of the build is in the aggregate and in its cache file.
C33_Witness ==
    /\ pc = "next_build"
    /\ build_idx > 1
    /\ LET b == uncached_builds[build_idx - 1] IN
        /\ \E i \in Positions : log[i].op = "get_plan" /\ log[i].build = b.id /\ log[i].raised
        /\ \A i \in Positions :
              (log[i].build = b.id /\ log[i].op \in BuildOps) => log[i].raised
        /\ all_data.builds[Len(all_data.builds)] = NewBuildData(b)
        /\ FileExists(disk, FileOf(b))
        /\ disk[FileOf(b)] = save_build_data_to_csv(NewBuildData(b))

\* The second request of a session, with the cache in use: a file of the
\* first request that holds an all-zero record was loaded as the record
\* of its build, for which nothing is requested.
ZeroRecordLoadedLater ==
    /\ budget.requests = 0
    /\ inputs.use_cache
    /\ pc = "next_build"
    /\ \E c \in 1..Len(cached_builds) :
          /\ all_data.builds[c] = NewBuildData(cached_builds[c])
          /\ atClick.disk[FileOf(cached_builds[c])]
                = save_build_data_to_csv(NewBuildData(cached_builds[c]))
          /\ \A i \in Positions :
                log[i].build = cached_builds[c].id => log[i].op \in {"exists", "read_cache"}

\* The records of the pages the result fetch has received.
PagesSoFar == ResultsOfItems(FlattenSeq(pgPages))

\* C34: whenever the result fetch of a run is over, after a failed page
\* request as after a last page, it returns the pages received so far;
\* the step that receives them adds to the build's totals the counts
\* recomputed from these records when there is at least one, in place of
\* the summary counts of the run, and the summary counts only when no
\* record was received.
C34_PartialResultsReplaceSummary ==
    /\ []((pgKind = "results" /\ pgPc = "done") =>
            pgReturn = ListResponse(FlattenSeq(pgPages)))
    /\ [][ResultsAnswerStep =>
            /\ LastLogged.returned = Len(PagesSoFar)
            /\ IF Len(PagesSoFar) > 0
               THEN OverallPlus(TempCounts(PagesSoFar))
               ELSE OverallPlus(SummaryCounts(run.summary))]_vars

\* The server holds 300 results; the second page request failed, the 250
\* records of the first page were returned and the totals of the build
\* are the counts of these 250 records, not of the summary.
C34_Witness ==
    /\ pgPc = "done"
    /\ pgFault
    /\ pgServer.total = 300
    /\ Len(pgRequests) = 2
    /\ Len(pgReturn.items) = 250
    /\ \E i \in Positions : log[i].op = "get_results" /\ log[i].returned = 250
    /\ build_data.overall = TempCounts(PagesSoFar)
    /\ \A s \in CountedSummaries : build_data.overall # SummaryCounts(s)

\* The first page request failed: nothing is returned and the summary
\* counts of the run are the totals of the build.
FailedAtFirstPageUsesSummary ==
    /\ pgPc = "done"
    /\ pgFault
    /\ pgServer.total = 300
    /\ Len(pgRequests) = 1
    /\ \E i \in Positions : log[i].op = "get_results" /\ log[i].returned = 0
    /\ \E s \in CountedSummaries : build_data.overall = SummaryCounts(s)

\* The plans of the pages the listing has received.
PlansSoFar == [i \in 1..Len(FlattenSeq(pgPages)) |-> PlanOfItem(FlattenSeq(pgPages)[i])]

\* The step received what api.get_plans returned.
PlansAnswerStep == LoggedOne /\ LastLogged.op = "get_plans"

\* The memo once it is set stays as it is, and no page of the listing is
\* requested again.
MemoKept ==
    [][session.has_plans =>
          /\ session'.has_plans
          /\ session'.all_plans_cache = session.all_plans_cache
          /\ pgRequests' = pgRequests]_vars

\* An uncached build without a plan in the memoized list has no request
\* of its own, no write and no record.
AbsentBuildsSkipped ==
    (pc # "idle" /\ session.has_plans) =>
        \A u \in 1..Len(uncached_builds) :
            NoPlanFor(session.all_plans_cache, uncached_builds[u]) =>
                /\ \A i \in Positions :
                      log[i].build = uncached_builds[u].id
                      => log[i].op \notin BuildOps \cup {"write_cache"}
                /\ \A r \in (Len(cached_builds) + 1)..Len(all_data.builds) :
                      all_data.builds[r].name # uncached_builds[u].name

\* C35 as stated: when a page request of the all-plans listing raised or
\* was answered by an object without a list field, the step that receives
\* the outcome does not end the request and memoizes the plans of the
\* pages received so far; the memo is kept and the listing is not
\* requested again; an uncached build without a plan in the memo is
\* skipped without record and without write.
C35_PlansSoFarMemoized ==
    /\ [][(PlansAnswerStep /\ pgFault /\ pgReturn.type \in {"list", "dict"}) =>
            /\ pc' # "idle"
            /\ ~LastLogged.raised
            /\ session'.has_plans
            /\ session'.all_plans_cache = PlansSoFar]_vars
    /\ MemoKept
    /\ []AbsentBuildsSkipped

\* C35: when a page request of the all-plans listing raised, the step
\* that receives the outcome does not end the request and memoizes the
\* plans of the pages received so far; when a page request was answered
\* by something that is no list, it memoizes the empty list, whatever
\* the pages before held; the memo is kept and the listing is not
\* requested again; an uncached build without a plan in the memo is
\* skipped without record and without write.
C35_FailedListingMemoized ==
    /\ [][(PlansAnswerStep /\ pgFault) =>
            /\ pc' # "idle"
            /\ ~LastLogged.raised
            /\ session'.has_plans
            /\ session'.all_plans_cache =
                  (IF pgReturn.type = "list" THEN PlansSoFar ELSE <<>>)]_vars
    /\ [](pgKind = "plans" /\ pgPc = "done" /\ pgFault /\ pgReturn.type = "list" =>
            pgReturn = ListResponse(FlattenSeq(pgPages)))
    /\ MemoKept
    /\ []AbsentBuildsSkipped

\* The second page request of the listing raised: the 250 plans of the
\* first page are the memo, the build 12, whose plan is on the second
\* page, was skipped, and the request went on to its end.
C35_Witness ==
    /\ pgKind = "plans"
    /\ pgFault
    /\ pgReturn.type = "list"
    /\ Len(pgRequests) = 2
    /\ Len(session.all_plans_cache) = 250
    /\ session.all_plans_cache = PlansSoFar
    /\ pc = "next_build"
    /\ build_idx > Len(uncached_builds)
    /\ \E u \in 1..Len(uncached_builds) :
          /\ uncached_builds[u].id = 12
          /\ \A i \in Positions : log[i].build = 12 => log[i].op = "exists"
          /\ \A r \in 1..Len(all_data.builds) : all_data.builds[r].name # uncached_builds[u].name

\* The second page request of the listing was answered by an object: the
\* 250 plans of the first page are lost and the memo is empty.
ObjectAtSecondPageEmptiesMemo ==
    /\ pgKind = "plans"
    /\ pgFault
    /\ pgReturn.type = "dict"
    /\ Len(pgRequests) = 2
    /\ Len(FlattenSeq(pgPages)) = 250
    /\ session.has_plans
    /\ session.all_plans_cache = <<>>

\* In the second request of the session the memo of the first is used:
\* a build is entered and no page of the listing was requested since the
\* click.
MemoUsedInLaterRequest ==
    /\ budget.requests = 0
    /\ atClick.session.has_plans
    /\ pc = "get_plan"
    /\ \A i \in Positions : log[i].op # "get_plans"

\* A character the file name keeps: a word character or a hyphen.
KeptInFileName(c) == IsWordChar(c) \/ c = "-"

\* Two names that differ only where neither holds a kept character.
DifferOutsideKept(a, b) ==
    /\ Len(a) = Len(b)
    /\ \A i \in 1..Len(a) : a[i] = b[i] \/ (~KeptInFileName(a[i]) /\ ~KeptInFileName(b[i]))

\* C36: two builds of a release whose names differ only in characters
\* outside the kept set have the same cache file; with the cache in use
\* a selected build is a cached build exactly when that file exists at
\* the click, whichever build it was written for, and the record loaded
\* for a cached build is the record the file holds, with the name and
\* the counts stored there: a name that differs from the build's own at
\* most outside the kept set.
C36_CollidingBuildsShareFile ==
    (pc \notin {"idle", "get_milestones", "get_milestone"} /\ inputs.use_cache) =>
        /\ \A k \in 1..Len(build_milestones) :
              /\ \A other \in {N_A, N_B, N_C, N_X} :
                    DifferOutsideKept(build_milestones[k].name, other) =>
                        LET written == SavePath(inputs.cache_dir, inputs.release_milestone, other)
                        IN  /\ CheckPath(inputs.cache_dir, inputs.release_milestone,
                                         build_milestones[k].name) = written
                            /\ FileOf(build_milestones[k]) = written
              /\ (\E c \in 1..Len(cached_builds) : cached_builds[c] = build_milestones[k])
                 <=> FileExists(atClick.disk, FileOf(build_milestones[k]))
        /\ \A c \in 1..Len(cached_builds) :
              (pc # "load_cached" \/ c < load_idx) =>
                  /\ all_data.builds[c] =
                        AsRecord(load_build_data_from_csv(atClick.disk[FileOf(cached_builds[c])]))
                  /\ DifferOutsideKept(all_data.builds[c].name, cached_builds[c].name)

\* The file the first request wrote for 'T-20250601 b' makes
\* 'T-20250601.b' a cached build of the second request, and the record
\* loaded for it is named 'T-20250601 b'.
C36_Witness ==
    /\ budget.requests = 0
    /\ inputs.use_cache
    /\ pc = "next_build"
    /\ \E c \in 1..Len(cached_builds) :
          /\ cached_builds[c].name = N_C
          /\ all_data.builds[c].name = N_B
          /\ FileOf(cached_builds[c]) = SavePath(CacheDir, inputs.release_milestone, N_B)

\* The cached builds loaded so far.
LoadedCount == IF pc = "load_cached" THEN load_idx - 1 ELSE Len(cached_builds)

\* The uncached builds whose record was appended and written.
WrittenPlaces ==
    {u \in 1..Len(uncached_builds) :
        \E i \in Positions :
            /\ log[i].op = "write_cache"
            /\ log[i].build = uncached_builds[u].id
            /\ ~log[i].raised}

\* The builds that have a record so far: the loaded ones, then the
\* written ones.
RecordBuilds == SubSeq(cached_builds, 1, LoadedCount) \o AtPlaces(uncached_builds, WrittenPlaces)

DatesDescending(builds) ==
    \A i, j \in 1..Len(builds) :
        i < j => DateKey(builds[i].build_date) >= DateKey(builds[j].build_date)

\* C37: the aggregate of a request holds one record for each cached
\* build loaded and each uncached build written so far, the loaded ones
\* first: a record of the first group is what the file of its build
\* holds, a record of the second carries the name and the date of its
\* build.  The builds of each group stand in descending date order, they
\* are distinct selected builds and at most 5, and the builds of all the
\* records stand in descending date order exactly when no written build
\* is newer than a loaded one.
C37_CachedFirstThenFresh ==
    (pc \notin {"idle", "get_milestones", "get_milestone"}) =>
        LET stands == RecordBuilds
            n == LoadedCount
            N == Len(all_data.builds)
        IN  /\ N = Len(stands)
            /\ \A r \in 1..N :
                  IF r <= n
                  THEN all_data.builds[r] =
                          AsRecord(load_build_data_from_csv(atClick.disk[FileOf(stands[r])]))
                  ELSE /\ all_data.builds[r].name = stands[r].name
                       /\ all_data.builds[r].date = DateString(stands[r].build_date)
            /\ DatesDescending(SubSeq(stands, 1, n))
            /\ DatesDescending(SubSeq(stands, n + 1, N))
            /\ N <= RetainedBuilds
            /\ \A r \in 1..N : \E k \in 1..Len(build_milestones) : build_milestones[k] = stands[r]
            /\ \A r1, r2 \in 1..N : stands[r1].id = stands[r2].id => r1 = r2
            /\ DatesDescending(stands) <=>
                  \A c \in 1..n, f \in (n + 1)..N :
                      DateKey(stands[f].build_date) <= DateKey(stands[c].build_date)

\* The loop is over with two records: the first was loaded for a build of
\* 2025-06-01, the second fetched for the build of 2025-06-02.
C37_Witness ==
    /\ pc = "next_build"
    /\ build_idx > Len(uncached_builds)
    /\ Len(cached_builds) = 1
    /\ Len(all_data.builds) = 2
    /\ all_data.builds[2].name = N_A
    /\ DateKey(cached_builds[1].build_date) < DateKey(parse_build_date(N_A))
    /\ ~DatesDescending(RecordBuilds)

\* The loop is over with a loaded record of the newer build before the
\* fetched record of the older one: the whole is in descending order.
CachedNewerThanFresh ==
    /\ pc = "next_build"
    /\ build_idx > Len(uncached_builds)
    /\ Len(cached_builds) = 1
    /\ Len(all_data.builds) = 2
    /\ DateKey(cached_builds[1].build_date) > DateKey(RecordBuilds[2].build_date)
    /\ DatesDescending(RecordBuilds)

(***************************************************************************)
(* Section counts against the failures of their bucket                     *)
(***************************************************************************)
RECURSIVE SumCounts(_, _)
SumCounts(sections, labels) ==
    IF labels = {} THEN 0
    ELSE LET l == CHOOSE x \in labels : TRUE IN
         sections[l] + SumCounts(sections, labels \ {l})

\* The section counts of a bucket, whatever their label, added up.
SectionTotal(bucket) == SumCounts(bucket.sections, DOMAIN bucket.sections)

Topologies == {"single", "stack"}

\* No bucket of the record holds more section counts than failures, and
\* the record has no bucket outside the classified platforms.
SectionsWithinFailures(bd) ==
    /\ UnknownPlatform \notin DOMAIN bd.platforms
    /\ \A p \in DOMAIN bd.platforms :
          /\ DOMAIN bd.platforms[p] = Topologies
          /\ \A d \in Topologies :
                LET b == bd.platforms[p][d] IN
                /\ \A l \in DOMAIN b.sections : b.sections[l] > 0
                /\ SectionTotal(b) <= b.failed + b.error

\* The records of the aggregate that this request aggregated itself.
FreshRecords == {all_data.builds[i] : i \in (LoadedCount + 1)..Len(all_data.builds)}

\* A step that adds to the section counts of a bucket of the record in
\* progress.
SectionsGrow(p, d) ==
    LET before == BucketOf(build_data.platforms, p, d).sections
        after == BucketOf(build_data'.platforms, p, d).sections
    IN  \E l \in DOMAIN after : after[l] > SectionCount(before, l)

\* C38: in every state of a fresh aggregation the section counts of each
\* platform/topology bucket (mapped sections, estimated sections and
\* sentinel labels together) add up to at most the bucket's failed + error
\* count, in the record in progress and in every record aggregated by the
\* request; and a step adds section counts only to the bucket of the run at
\* hand, whose platform is classified and whose topology is single or
\* stack.
C38_SectionsWithinFailures ==
    /\ [](SectionsWithinFailures(build_data)
            /\ \A bd \in FreshRecords : SectionsWithinFailures(bd))
    /\ [][\A p \in DOMAIN build_data'.platforms : \A d \in Topologies :
              SectionsGrow(p, d) =>
                  /\ pc \in {"get_run", "get_results", "get_tests", "get_cases",
                              "get_sections", "estimate_sections"}
                  /\ p = run.platform
                  /\ d = run.device_type
                  /\ RunClassified(run)]_vars

\* A bucket whose section counts stay below its failures: a failed result
\* no section was found for is counted by the bucket alone.
C38_Witness ==
    \E p \in DOMAIN build_data.platforms : \E d \in Topologies :
        LET b == build_data.platforms[p][d] IN
        /\ SectionTotal(b) > 0
        /\ SectionTotal(b) < b.failed + b.error

\* A bucket filled by the estimate alone: its section counts are as many
\* as its failures.
EstimateFillsBucket ==
    \E p \in DOMAIN build_data.platforms : \E d \in Topologies :
        LET b == build_data.platforms[p][d] IN
        /\ SectionTotal(b) = b.failed + b.error
        /\ \E l \in DOMAIN b.sections :
               /\ Len(l) > Len(L_Estimated)
               /\ SubSeq(l, Len(l) - Len(L_Estimated) + 1, Len(l)) = L_Estimated

(***************************************************************************)
(* The stored aggregate and the endings of a request                       *)
(***************************************************************************)
\* st.session_state['testrail_data'], or its absence.
Stored(s) == [has_data |-> s.has_data, testrail_data |-> s.testrail_data]

\* The cache files the request has written so far.
WrittenPaths ==
    {CachePath(inputs.cache_dir, inputs.release_milestone, NameOfBuild(log[i].build)) :
        i \in {k \in Positions : log[k].op = "write_cache" /\ ~log[k].raised}}

EndedShort == pc = "idle" /\ outcome \in {"not_found", "no_builds", "error"}

\* C39: the stored aggregate changes only in the step that ends a request
\* as done, which stores the aggregate of that request; while a request
\* runs, and after it ended because the release was not found, because no
\* build remained or because of an exception, the stored aggregate is the
\* one held at the click; the step that ends a request leaves the cache
\* directory as it is, no step removes a file, and the files the request
\* wrote are on disk after it ended.
C39_StoredOnlyWhenDone ==
    /\ [][(Stored(session') # Stored(session)) =>
              /\ pc = "next_build"
              /\ pc' = "idle"
              /\ outcome' = "done"
              /\ Stored(session') = [has_data |-> TRUE, testrail_data |-> all_data]]_vars
    /\ []((pc # "idle" \/ EndedShort) => Stored(session) = Stored(atClick.session))
    /\ [][/\ DOMAIN disk \subseteq DOMAIN disk'
          /\ (pc # "idle" /\ pc' = "idle") => disk' = disk]_vars
    /\ [](EndedShort => \A path \in WrittenPaths : FileExists(disk, path))

\* The second request of a session wrote a file and then ended in the outer
\* except: the aggregate the first request stored is still the stored one.
C39_Witness ==
    /\ EndedShort
    /\ outcome = "error"
    /\ atClick.session.has_data
    /\ Len(atClick.session.testrail_data.builds) > 0
    /\ session.testrail_data = atClick.session.testrail_data
    /\ WrittenPaths # {}
    /\ disk # atClick.disk

\* The second request did not find its release: the first request's
\* aggregate stays.
NotFoundKeepsStored ==
    /\ pc = "idle"
    /\ outcome = "not_found"
    /\ session.has_data
    /\ Len(session.testrail_data.builds) > 0

\* The second request found no eligible build: the first request's
\* aggregate stays.
NoBuildsKeepsStored ==
    /\ pc = "idle"
    /\ outcome = "no_builds"
    /\ session.has_data
    /\ Len(session.testrail_data.builds) > 0

\* The second request replaced the aggregate of the first by another.
DoneReplacesStored ==
    /\ pc = "idle"
    /\ outcome = "done"
    /\ atClick.session.has_data
    /\ session.testrail_data # atClick.session.testrail_data

=============================================================================
